---------------------------- MODULE Spec2Model ----------------------------
(***************************************************************************)
(* Verification model of the ISA knowledge-base retrieval engine           *)
(* (isa_kb_mcp_server): graph traversal (graph.py), fusion / multi-tier   *)
(* search (search.py, vectors.py), context formatting (context.py) and     *)
(* the verification tools (verify.py).                                     *)
(*                                                                         *)
(* Numbers.  The code computes scores in binary floating point; the model  *)
(* uses exact fixed-point integers.  Edge weights and the decay are in     *)
(* tenths, an accumulated hop score is an integer number of 1/ScoreScale,  *)
(* confidences are in units of 1/10000, an RRF score is an integer number  *)
(* of 1/den for a common denominator den.  Floating-point representation   *)
(* error is not modelled.                                                  *)
(***************************************************************************)
EXTENDS Integers, Sequences, FiniteSets, TLC

VARIABLES
    hop_edge,      \* rows of the hop_edge table: records [src, dst, weight]
    hop_call,      \* parameters of the last hop_retrieve call, or NoCall
    hop_rows,      \* rows the recursive CTE produced for that call (hops)
    hop_result,    \* the dict hop_retrieve returned, or NoCall
    rrf_call,      \* arguments of the last _rrf_fuse call, or NoCall
    rrf_out,       \* the list _rrf_fuse returned, or NoCall
    lancedb_db,        \* vectors._lancedb_db is not None
    voyage_client,     \* vectors._voyage_client is not None
    voyage_available,  \* vectors._voyage_available
    search_call,   \* the last search call: function, arguments and the
                   \* outcomes of the store / embedding calls it makes
    search_trace,  \* the external calls that search call made, in order
    tier_resp,     \* what each tier's search returned inside multi_tier_search
    search_resp,   \* the dict the search call returned, Raised, or NoCall
    ctx_call,      \* arguments of the last format_context call, or NoCall
    ctx_grouped,   \* the role groups that call passed to budgeting, or NoCall
    ctx_result,    \* the dict format_context returned, or NoCall
    cites,         \* rows of the cites table: records [src, dst]
    verify_call,   \* the last verification call: tool and arguments, or NoCall
    verify_result, \* the dict that call returned, or NoCall
    maps_to,       \* rows of the maps_to table: records [src, dst]
    guide_call,    \* arguments of the last guide_to_isa_hop call, or NoCall
    guide_hops,    \* what hop_retrieve returned to that call, per direct
                   \* reference in the order of the calls, or NoCall
    guide_result,  \* the dict guide_to_isa_hop returned, or NoCall
    expand_call,   \* argument of the last expand_query call, or NoCall
    expand_result, \* what that call returned, or NoCall
    expand_again,  \* what expand_query returned for that result, or NoCall
    rerank_call,   \* arguments and environment of the last rerank_results
                   \* call, or NoCall
    rerank_result, \* what that call returned, or NoCall
    db_lock,       \* db._lock: the thread that holds it, or 0
    db_connection, \* db._connection: a handle, or 0 for None
    db_handles,    \* the handles duckdb.connect returned so far, each "open"
                   \* or "closed"; handle h is db_handles[h]
    db_pc,         \* where each thread stands in the db function it runs
    db_op,         \* the db function each thread was asked to run
    db_conn,       \* each thread's local conn of execute_query, or 0
    db_received,   \* history: the handle get_connection returned to each
                   \* thread since the connection was last released, or 0
    resolve_call,  \* the identifier and store content the resolvers were
                   \* last compared on, or NoCall
    resolve_result \* what each resolver made of it, or NoCall

hopVars == <<hop_edge, hop_call, hop_rows, hop_result>>

rrfVars == <<rrf_call, rrf_out>>

vectorVars == <<lancedb_db, voyage_client, voyage_available>>

searchVars == <<vectorVars, search_call, search_trace, tier_resp, search_resp>>

contextVars == <<ctx_call, ctx_grouped, ctx_result>>

\* the state of the tools that use neither the graph nor the search engine
verifyVars == <<cites, verify_call, verify_result>>

guideVars == <<maps_to, guide_call, guide_hops, guide_result>>

expandVars == <<expand_call, expand_result, expand_again>>

rerankVars == <<rerank_call, rerank_result>>

dbVars == <<db_lock, db_connection, db_handles, db_pc, db_op, db_conn, db_received>>

resolveVars == <<resolve_call, resolve_result>>

\* the state of query expansion, reranking, the store connection and the
\* identifier resolvers
serviceVars == <<expandVars, rerankVars, dbVars, resolveVars>>

toolVars == <<contextVars, verifyVars, guideVars, serviceVars>>

vars == <<hopVars, rrfVars, searchVars, toolVars>>

NoCall == [none |-> TRUE]

(***************************************************************************)
(* Bounds of the model.                                                    *)
(***************************************************************************)
MaxEdges == 3      \* rows in hop_edge
MaxHops == 3       \* largest max_hops argument tried
MaxList == 3       \* longest keyword / vector result list

Nodes == {0, 1, 2, 3}        \* ISAParagraph ids ip_0 .. ip_3
ISAParagraph == Nodes        \* every edge endpoint is a stored paragraph
Seeds == {0}                 \* the resolved seed paragraph_id
Weights == {8, 9}            \* hop_edge.weight, in tenths
Decays == {7, 10}            \* decay argument, in tenths
MaxResultsArgs == {1, 4}     \* max_results argument

RECURSIVE Pow10(_)
Pow10(n) == IF n = 0 THEN 1 ELSE 10 * Pow10(n - 1)

\* One unit of score is 1/ScoreScale; a path of k <= MaxHops edges has a
\* score with 2k-1 decimal digits, so every score is an exact integer.
ScoreScale == Pow10(2 * MaxHops - 1)

MinScores == {0, (85 * ScoreScale) \div 100}   \* min_score argument: 0, 0.85

(***************************************************************************)
(* Helpers on sequences.                                                   *)
(***************************************************************************)
Range(s) == {s[i] : i \in DOMAIN s}

Take(s, n) == IF n >= Len(s) THEN s ELSE IF n <= 0 THEN << >> ELSE SubSeq(s, 1, n)

\* a local variable: v is computed once and Op applied to its value
With(v, Op(_)) == CHOOSE r \in {Op(x) : x \in {v}} : TRUE

\* the elements of s at the positions in keep, in the order of s
Keep(s, keep) ==
    [p \in 1..Cardinality(keep) |->
        s[CHOOSE i \in keep : Cardinality({j \in keep : j <= i}) = p]]

\* sorted(set of integers) ascending, as ORDER BY p.id delivers the rows
RECURSIVE SortedSeq(_)
SortedSeq(S) ==
    IF S = {} THEN << >>
    ELSE LET m == CHOOSE x \in S : \A y \in S : x <= y
         IN <<m>> \o SortedSeq(S \ {m})

(***************************************************************************)
(* hop_retrieve: the recursive CTE  (graph.py 149-194)                     *)
(***************************************************************************)
\* Base case: e.weight AS score
BaseScore(weight) == weight * (ScoreScale \div 10)

\* the recursive case with the decay factor left out
ExtendScoreNoDecay(score, decay, weight) == (score * 10 * weight) \div 100

\* Recursive case: h.score * ? * e.weight AS score
ExtendScore(score, decay, weight) == (score * decay * weight) \div 100

\* Base case of the CTE: direct neighbours of the seed paragraph
BaseRows(edges, seed) ==
    { [dst |-> e.dst, score |-> BaseScore(e.weight), path |-> <<e.src>>, depth |-> 1] :
        e \in {x \in edges : x.src = seed} }

\* WHERE clause of the recursive case
CanExtend(h, e, max_hops, decay, min_score) ==
    /\ h.dst = e.src
    /\ h.depth < max_hops
    /\ e.dst \notin Range(h.path)
    /\ ExtendScore(h.score, decay, e.weight) >= min_score

\* SELECT list of the recursive case
ExtendRow(h, e, decay) ==
    [dst |-> e.dst, score |-> ExtendScore(h.score, decay, e.weight),
     path |-> Append(h.path, e.src), depth |-> h.depth + 1]

\* UNION ALL iteration: the working table is extended until it is empty
RECURSIVE Hops(_, _, _, _, _)
Hops(frontier, edges, max_hops, decay, min_score) ==
    IF frontier = {} THEN {}
    ELSE LET next == { ExtendRow(x[1], x[2], decay) :
                         x \in { y \in frontier \X edges :
                                   CanExtend(y[1], y[2], max_hops, decay, min_score) } }
         IN frontier \cup Hops(next, edges, max_hops, decay, min_score)

\* FROM hops h JOIN ISAParagraph p ON h.dst_id = p.id WHERE p.id != ?
Joined(rows, seed) == { h \in rows : h.dst \in ISAParagraph /\ h.dst # seed }

\* DISTINCT ON (p.id) ... ORDER BY p.id, h.score DESC: the candidates for
\* one id are its rows of greatest score (a tie is broken arbitrarily)
BestRows(rows, id) ==
    { h \in rows : h.dst = id /\ \A g \in rows : g.dst = id => g.score <= h.score }

\* the result sets the SELECT can deliver: one best row per id, in id order
RECURSIVE DistinctOn(_, _)
DistinctOn(order, rows) ==
    IF order = << >> THEN { << >> }
    ELSE { <<x[1]>> \o x[2] :
             x \in BestRows(rows, Head(order)) \X DistinctOn(Tail(order), rows) }

\* round(float(hop_score), 4): to the nearest 1/10000, kept in score units
Round4(score) ==
    LET unit == ScoreScale \div 10000
    IN ((2 * score + unit) \div (2 * unit)) * unit

\* list.sort(key=lambda r: -score), a stable sort: a row moves behind the rows
\* of higher score and behind the earlier rows of equal score
PlaceByScore(rows, i) ==
    Cardinality({j \in DOMAIN rows :
        \/ rows[j].score > rows[i].score
        \/ rows[j].score = rows[i].score /\ j < i}) + 1
SortByScoreDesc(rows) ==
    With(rows, LAMBDA r :
        [p \in DOMAIN r |-> r[CHOOSE i \in DOMAIN r : PlaceByScore(r, i) = p]])

\* the connected entry built from one row (graph.py 222-237); score keeps
\* the unrounded SQL value next to the reported hop_score
Connected(h) ==
    [id |-> h.dst, score |-> h.score, hop_score |-> Round4(h.score),
     hop_depth |-> h.depth, hop_path |-> h.path]

(***************************************************************************)
(* Text.  A Python str is a TLA+ string, read character by character.      *)
(* The texts of the model hold letters, digits, spaces and punctuation;    *)
(* the only whitespace is the space.                                       *)
(***************************************************************************)
UpperCase == "ABCDEFGHIJKLMNOPQRSTUVWXYZ"
LowerCase == "abcdefghijklmnopqrstuvwxyz"
Digits == "0123456789"

Ch(s, i) == SubSeq(s, i, i)

Chars(s) == {Ch(s, i) : i \in 1..Len(s)}

UpperChars == Chars(UpperCase)

\* \w
WordChars == Chars(UpperCase) \cup Chars(LowerCase) \cup Chars(Digits) \cup {"_"}

LowerChar(c) ==
    IF c \in UpperChars
    THEN Ch(LowerCase, CHOOSE i \in 1..Len(UpperCase) : Ch(UpperCase, i) = c)
    ELSE c

\* str.lower() of the first n characters
RECURSIVE LowerTo(_, _)
LowerTo(s, n) == IF n = 0 THEN "" ELSE LowerTo(s, n - 1) \o LowerChar(Ch(s, n))

\* str.lower()
Lower(s) == LowerTo(s, Len(s))

\* str.strip()
Strip(s) ==
    LET inked == {i \in 1..Len(s) : Ch(s, i) # " "}
    IN IF inked = {} THEN ""
       ELSE SubSeq(s, CHOOSE i \in inked : \A j \in inked : i <= j,
                      CHOOSE i \in inked : \A j \in inked : i >= j)

\* t in s
Contains(s, t) == \E i \in 1..(Len(s) - Len(t) + 1) : SubSeq(s, i, i + Len(t) - 1) = t

\* s.startswith(t)
StartsWith(s, t) == Len(s) >= Len(t) /\ SubSeq(s, 1, Len(t)) = t

\* re.sub(r"^ISA\s*", "", s, flags=re.IGNORECASE); on a lower-case s this
\* is also re.sub(r"^isa\s*", "", s)
StripIsaPrefix(s) ==
    IF Len(s) < 3 \/ Lower(SubSeq(s, 1, 3)) # "isa" THEN s
    ELSE LET rest == {i \in 4..Len(s) : Ch(s, i) # " "}
         IN IF rest = {} THEN ""
            ELSE SubSeq(s, CHOOSE i \in rest : \A j \in rest : i <= j, Len(s))

\* re.findall(r"\b\w{n,}\b", s): the maximal runs of word characters that
\* are at least n long, from left to right
FindWords(s, n) ==
    LET word == [i \in 1..Len(s) |-> Ch(s, i) \in WordChars]
        starts == {i \in 1..Len(s) : word[i] /\ (i = 1 \/ ~word[i - 1])}
        end(i) == CHOOSE j \in i..Len(s) :
                     /\ \A k \in i..j : word[k]
                     /\ (j = Len(s) \/ ~word[j + 1])
        long == {i \in starts : end(i) - i + 1 >= n}
        order == SortedSeq(long)
    IN [k \in 1..Len(order) |-> SubSeq(s, order[k], end(order[k]))]

\* bool(re.search(r"\b" + phrase + r"\b", s)) for a phrase that begins and
\* ends with a word character
SearchPhrase(s, phrase) ==
    \E i \in 1..(Len(s) - Len(phrase) + 1) :
        /\ SubSeq(s, i, i + Len(phrase) - 1) = phrase
        /\ (i = 1 \/ Ch(s, i - 1) \notin WordChars)
        /\ (i + Len(phrase) - 1 = Len(s) \/ Ch(s, i + Len(phrase)) \notin WordChars)

\* str(n) for 0 <= n < 100
Str(n) ==
    IF n < 10 THEN Ch(Digits, n + 1)
    ELSE Ch(Digits, (n \div 10) + 1) \o Ch(Digits, (n % 10) + 1)

\* round(num / den, 4) in units of 1/10000; no quotient of the model lies
\* half-way between two such values
RoundRatio4(num, den) == (2 * 10000 * num + den) \div (2 * den)

(***************************************************************************)
(* The knowledge base the verification tools read: the ISAParagraph table. *)
(***************************************************************************)
MaxKb == 16        \* rows in the ISAParagraph table

KbContents ==
    <<"The auditor shall identify and assess risk",
      "Assessment procedures shall not be omitted.",
      "ISA 315.12 is always required",
      "The auditor must document the plan">>

\* the id of paragraph number n
NodeId(n) == "ip_" \o Str(n)

KbIsaNumber(n) == IF n % 3 = 2 THEN "500" ELSE "315"

KbRow(n) ==
    [id |-> NodeId(n),
     content |-> KbContents[(n % Len(KbContents)) + 1],
     paragraph_ref |-> KbIsaNumber(n) \o "." \o Str(n + 1),
     isa_number |-> KbIsaNumber(n)]

KbRows == {KbRow(n) : n \in 0..(MaxKb - 1)}

(***************************************************************************)
(* State machine of the graph traversal.                                   *)
(***************************************************************************)
HopIdle ==
    /\ hop_edge = {}
    /\ hop_call = NoCall
    /\ hop_rows = {}
    /\ hop_result = NoCall

RrfIdle ==
    /\ rrf_call = NoCall
    /\ rrf_out = NoCall

\* vectors.py module state at import, and no search call yet
SearchIdle ==
    /\ lancedb_db = FALSE
    /\ voyage_client = FALSE
    /\ voyage_available = FALSE
    /\ search_call = NoCall
    /\ search_trace = << >>
    /\ tier_resp = [t \in {1, 2} |-> NoCall]
    /\ search_resp = NoCall

ContextIdle ==
    /\ ctx_call = NoCall
    /\ ctx_grouped = NoCall
    /\ ctx_result = NoCall

VerifyIdle ==
    /\ cites = {}
    /\ verify_call = NoCall
    /\ verify_result = NoCall

GuideIdle ==
    /\ maps_to = {}
    /\ guide_call = NoCall
    /\ guide_hops = NoCall
    /\ guide_result = NoCall

ExpandIdle ==
    /\ expand_call = NoCall
    /\ expand_result = NoCall
    /\ expand_again = NoCall

RerankIdle ==
    /\ rerank_call = NoCall
    /\ rerank_result = NoCall

\* the threads that use the store connection
Threads == {1, 2}

\* module import of db.py: no connection, the lock free, no thread in a call
DbIdle ==
    /\ db_lock = 0
    /\ db_connection = 0
    /\ db_handles = << >>
    /\ db_pc = [t \in Threads |-> "idle"]
    /\ db_op = [t \in Threads |-> "none"]
    /\ db_conn = [t \in Threads |-> 0]
    /\ db_received = [t \in Threads |-> 0]

ResolveIdle ==
    /\ resolve_call = NoCall
    /\ resolve_result = NoCall

ServiceIdle == ExpandIdle /\ RerankIdle /\ DbIdle /\ ResolveIdle

ToolsIdle == ContextIdle /\ VerifyIdle /\ GuideIdle /\ ServiceIdle

\* before ingestion and before any call
Init == HopIdle /\ RrfIdle /\ SearchIdle /\ ToolsIdle

\* Ingestion writes one row: INSERT OR REPLACE INTO hop_edge.  The edge id is
\* derived from (src_id, dst_id, hop_type), so a pair has one row.  The
\* database is read-only once the server queries it.
InsertHopEdge(src, dst, weight) ==
    /\ hop_call = NoCall
    /\ LET kept == {e \in hop_edge : ~(e.src = src /\ e.dst = dst)}
       IN /\ Cardinality(kept) < MaxEdges
          /\ hop_edge' = kept \cup {[src |-> src, dst |-> dst, weight |-> weight]}
    /\ UNCHANGED <<hop_call, hop_rows, hop_result, rrfVars, searchVars, toolVars>>

\* hop_retrieve(paragraph_id, max_hops, decay, min_score, max_results) with
\* a seed that resolves to a stored paragraph and a query that succeeds.
\* Calls are independent of each other, so a behaviour holds one call.
HopRetrieve(seed, max_hops, decay, min_score, max_results) ==
    /\ hop_call = NoCall
    /\ LET rows == Hops(BaseRows(hop_edge, seed), hop_edge, max_hops, decay, min_score)
           joined == Joined(rows, seed)
           order == SortedSeq({h.dst : h \in joined})
       IN \E sqlRows \in DistinctOn(order, joined) :
           LET limited == Take(SortByScoreDesc(sqlRows), max_results)
               connected == [i \in 1..Len(limited) |-> Connected(limited[i])]
           IN /\ hop_call' = [seed |-> seed, max_hops |-> max_hops, decay |-> decay,
                              min_score |-> min_score, max_results |-> max_results]
              /\ hop_rows' = rows
              /\ hop_result' = [seed_id |-> seed, connected |-> connected,
                                total_found |-> Len(connected),
                                max_hops_used |-> max_hops, error |-> FALSE]
              /\ UNCHANGED <<hop_edge, rrfVars, searchVars, toolVars>>

\* the traversal query raises: hop_retrieve logs it and returns an error dict
\* that echoes the seed and max_hops
HopRetrieveFails(seed, max_hops) ==
    /\ hop_call = NoCall
    /\ hop_call' = [seed |-> seed, max_hops |-> max_hops]
    /\ hop_rows' = {}
    /\ hop_result' = [seed_id |-> seed, connected |-> << >>, total_found |-> 0,
                      max_hops_used |-> max_hops, error |-> TRUE]
    /\ UNCHANGED <<hop_edge, rrfVars, searchVars, toolVars>>

(***************************************************************************)
(* hop_retrieve: the seed that is not found  (graph.py 24-80, 117-142)     *)
(***************************************************************************)
DigitChars == Chars(Digits)

\* the last position of the run of digits of s that starts at position i
DigitsEnd(s, i) ==
    LET stops == {j \in i..Len(s) : Ch(s, j) \notin DigitChars}
    IN IF stops = {} THEN Len(s) ELSE (CHOOSE j \in stops : \A k \in stops : j <= k) - 1

\* re.match(r"(\d{3})\.(\d+)(?:\(([a-z])\))?(?:\.A(\d+))?", ref): the four
\* groups ("" for a group that did not take part), or NoCall for no match
MatchParagraphRef(ref) ==
    IF \/ Len(ref) < 5
       \/ \E i \in {1, 2, 3, 5} : Ch(ref, i) \notin DigitChars
       \/ Ch(ref, 4) # "."
    THEN NoCall
    ELSE LET para_end == DigitsEnd(ref, 5)
             has_sub == /\ Len(ref) >= para_end + 3
                        /\ Ch(ref, para_end + 1) = "("
                        /\ Ch(ref, para_end + 2) \in Chars(LowerCase)
                        /\ Ch(ref, para_end + 3) = ")"
             sub_end == IF has_sub THEN para_end + 3 ELSE para_end
             has_app == /\ Len(ref) >= sub_end + 3
                        /\ SubSeq(ref, sub_end + 1, sub_end + 2) = ".A"
                        /\ Ch(ref, sub_end + 3) \in DigitChars
         IN [isa_number |-> SubSeq(ref, 1, 3),
             para_num |-> SubSeq(ref, 5, para_end),
             sub_paragraph |-> IF has_sub THEN Ch(ref, para_end + 2) ELSE "",
             application_ref |-> IF has_app
                                 THEN "A" \o SubSeq(ref, sub_end + 3, DigitsEnd(ref, sub_end + 3))
                                 ELSE ""]

\* re.match(r"(\d{3})\.A(\d+)", ref): the two groups, or NoCall
MatchApplicationRef(ref) ==
    IF \/ Len(ref) < 6
       \/ \E i \in {1, 2, 3, 6} : Ch(ref, i) \notin DigitChars
       \/ SubSeq(ref, 4, 5) # ".A"
    THEN NoCall
    ELSE [isa_number |-> SubSeq(ref, 1, 3),
          application_ref |-> "A" \o SubSeq(ref, 6, DigitsEnd(ref, 6))]

\* the ISAParagraph rows of the graph's paragraphs, with the columns the
\* lookups read; no paragraph of the model has a sub-paragraph letter or an
\* application reference
SeedRows ==
    {[id |-> NodeId(n), paragraph_ref |-> KbRow(n).paragraph_ref,
      isa_number |-> KbIsaNumber(n), para_num |-> Str(n + 1),
      sub_paragraph |-> "", application_ref |-> ""] : n \in ISAParagraph}

\* rows[0]["id"] of a query with LIMIT 1, or NoCall; a lookup of the model
\* matches at most one row
FirstId(rows) == IF rows = {} THEN NoCall ELSE [id |-> (CHOOSE r \in rows : TRUE).id]

\* graph._resolve_paragraph_id(identifier) over the ISAParagraph rows given:
\* [id |-> the id], or NoCall for None
GraphResolveParagraphId(rows, identifier) ==
    With(Strip(identifier), LAMBDA stripped :
        IF StartsWith(stripped, "ip_") \/ StartsWith(stripped, "gs_")
        THEN [id |-> stripped]
        ELSE With(StripIsaPrefix(stripped), LAMBDA ref :
            LET exact == {r \in rows : r.paragraph_ref = ref}
                match == MatchParagraphRef(ref)
                parsed == IF match = NoCall THEN {}
                          ELSE {r \in rows :
                                   /\ r.isa_number = match.isa_number
                                   /\ r.para_num = match.para_num
                                   /\ match.sub_paragraph # "" => r.sub_paragraph = match.sub_paragraph
                                   /\ match.application_ref # ""
                                         => r.application_ref = match.application_ref}
                app_match == MatchApplicationRef(ref)
                applied == IF app_match = NoCall THEN {}
                           ELSE {r \in rows :
                                    /\ r.isa_number = app_match.isa_number
                                    /\ r.application_ref = app_match.application_ref}
            IN IF exact # {} THEN FirstId(exact)
               ELSE IF parsed # {} THEN FirstId(parsed)
               ELSE FirstId(applied)))

\* the resolver over the paragraphs of the graph
ResolveSeed(identifier) == GraphResolveParagraphId(SeedRows, identifier)

FormatHint ==
    "Try formats: '315.12', '315.12(a)', '315.A2', or an internal ID like 'ip_a1b2c3d4'."

\* the paragraph_id arguments tried
SeedArgs ==
    {"ip_0", "ISA 315.2", "315.1x", "ip_99", " gs_7", "999.1", "ISA 315.99", "315.1(a)", "315.A2", ""}

\* hop_retrieve(paragraph_id, max_hops) returns before the traversal: the
\* identifier resolves to None, or the resolved id is no stored paragraph
HopRetrieveNotFound ==
    /\ hop_call = NoCall
    /\ \E paragraph_id \in SeedArgs, max_hops \in {MaxHops} :
          \E resolved_id \in {ResolveSeed(paragraph_id)} :
             /\ IF resolved_id = NoCall THEN TRUE
                ELSE {r \in SeedRows : r.id = resolved_id.id} = {}
             /\ hop_call' = [paragraph_id |-> paragraph_id, max_hops |-> max_hops]
             /\ hop_result' =
                   [seed_id |-> paragraph_id, connected |-> << >>, total_found |-> 0,
                    max_hops_used |-> max_hops, error |-> TRUE,
                    message |-> IF resolved_id = NoCall
                                THEN "Paragraph '" \o paragraph_id \o "' not found. " \o FormatHint
                                ELSE "Paragraph '" \o paragraph_id \o "' not found"]
    /\ UNCHANGED <<hop_edge, hop_rows, rrfVars, searchVars, toolVars>>

HopNext ==
    \/ \E src \in Nodes, dst \in Nodes, weight \in Weights : InsertHopEdge(src, dst, weight)
    \/ \E seed \in Seeds, max_hops \in 0..MaxHops, decay \in Decays,
          min_score \in MinScores, max_results \in MaxResultsArgs :
            HopRetrieve(seed, max_hops, decay, min_score, max_results)
    \/ \E seed \in Seeds, max_hops \in 0..MaxHops : HopRetrieveFails(seed, max_hops)
    \/ HopRetrieveNotFound

SpecHop == Init /\ [][HopNext]_vars

\* the call returned a traversal result (no error dict)
HopReturned == hop_result # NoCall /\ ~hop_result.error

HopEntries == IF HopReturned THEN Range(hop_result.connected) ELSE {}

(***************************************************************************)
(* What the claims speak of, stated from the graph alone.                  *)
(***************************************************************************)
NoDuplicates(s) == \A i, j \in DOMAIN s : i # j => s[i] # s[j]

HasEdge(a, b) == \E e \in hop_edge : e.src = a /\ e.dst = b

WeightOf(a, b) == (CHOOSE e \in hop_edge : e.src = a /\ e.dst = b).weight

\* a walk along edges of the graph: the node sequence seed, ..., destination
IsWalk(p, seed) ==
    /\ Len(p) >= 2
    /\ p[1] = seed
    /\ \A i \in 1..(Len(p) - 1) : HasEdge(p[i], p[i + 1])

\* w1 x (decay x w2) x ... x (decay x wk) for the walk p, in score units
RECURSIVE WeightProduct(_, _)
WeightProduct(p, decay) ==
    IF Len(p) = 2 THEN WeightOf(p[1], p[2])
    ELSE WeightProduct(SubSeq(p, 1, Len(p) - 1), decay)
           * decay * WeightOf(p[Len(p) - 1], p[Len(p)])
WalkScore(p, decay) ==
    WeightProduct(p, decay) * (ScoreScale \div Pow10(2 * (Len(p) - 1) - 1))

\* the self-avoiding walks of exactly k edges from the seed
RECURSIVE SelfAvoiding(_, _)
SelfAvoiding(seed, k) ==
    IF k <= 0 THEN {}
    ELSE IF k = 1 THEN {<<seed, n>> : n \in {m \in Nodes \ {seed} : HasEdge(seed, m)}}
    ELSE { Append(x[1], x[2]) :
             x \in { y \in SelfAvoiding(seed, k - 1) \X Nodes :
                       /\ y[2] \notin Range(y[1])
                       /\ HasEdge(y[1][Len(y[1])], y[2]) } }

\* the self-avoiding walks of at most max_hops edges from the seed
SelfAvoidingUpTo(seed, max_hops) ==
    UNION {SelfAvoiding(seed, k) : k \in 1..max_hops}

Walk(r) == Append(r.hop_path, r.id)

(***************************************************************************)
(* C1  A returned node reached over edges w1..wk has the accumulated score *)
(* w1 x (decay x w2) x ... x (decay x wk): its path is a walk of the graph *)
(* from the seed, a depth-1 node scores its edge weight without decay, and *)
(* every further hop multiplies by decay x weight; the reported hop_score  *)
(* is that value rounded to four decimals.                                 *)
(***************************************************************************)
C1_AccumulatedScore ==
    \A r \in HopEntries :
        /\ IsWalk(Walk(r), hop_call.seed)
        /\ r.hop_depth = Len(r.hop_path)
        /\ r.score = WalkScore(Walk(r), hop_call.decay)
        /\ r.hop_score = Round4(r.score)
        /\ (r.hop_depth = 1 => r.score * 10 = WeightOf(hop_call.seed, r.id) * ScoreScale)

\* weights 0.9 then 0.8 with decay 0.7 were returned as 0.9 and 0.504
C1_Witness ==
    /\ HopReturned
    /\ hop_call.decay = 7
    /\ \E r1, r2 \in HopEntries :
        /\ r1.hop_depth = 1 /\ r1.score * 10 = 9 * ScoreScale
        /\ r2.hop_depth = 2 /\ r2.hop_path = <<hop_call.seed, r1.id>>
        /\ WeightOf(r1.id, r2.id) = 8
        /\ r2.score * 1000 = 504 * ScoreScale
        /\ r2.hop_score * 1000 = 504 * ScoreScale

(***************************************************************************)
(* C2  Every returned node has an accumulated path score >= min_score,     *)
(* nodes reached directly from the seed at depth 1 included.  Stated for   *)
(* the calls with max_hops >= 1, where a depth-1 node is within the depth  *)
(* bound, so that the violation is one of the score floor alone.           *)
(***************************************************************************)
C2_ScoreAtLeastMinScore ==
    (hop_call # NoCall /\ hop_call.max_hops >= 1) =>
        \A r \in HopEntries : r.score >= hop_call.min_score

(***************************************************************************)
(* C3  With min_score = 0 and a result cap not below the number of         *)
(* reachable nodes, the result holds exactly the nodes other than the seed *)
(* that a self-avoiding path of at most max_hops edges reaches, each once, *)
(* with the score, depth and path of a maximum-scoring such path; the seed *)
(* is never returned.                                                      *)
(***************************************************************************)
C3_ExactlyReachable ==
    (HopReturned /\ hop_call.min_score = 0) =>
        LET paths == SelfAvoidingUpTo(hop_call.seed, hop_call.max_hops)
            reachable == {p[Len(p)] : p \in paths}
            conn == hop_result.connected
        IN (hop_call.max_results >= Cardinality(reachable)) =>
            /\ {conn[i].id : i \in DOMAIN conn} = reachable
            /\ \A i, j \in DOMAIN conn : i # j => conn[i].id # conn[j].id
            /\ hop_call.seed \notin {conn[i].id : i \in DOMAIN conn}
            /\ \A i \in DOMAIN conn :
                /\ Walk(conn[i]) \in paths
                /\ conn[i].hop_depth = Len(conn[i].hop_path)
                /\ conn[i].score = WalkScore(Walk(conn[i]), hop_call.decay)
                /\ \A p \in paths : p[Len(p)] = conn[i].id =>
                       WalkScore(p, hop_call.decay) <= conn[i].score

(***************************************************************************)
(* C4  Every path the traversal explores is a self-avoiding walk: no node  *)
(* id occurs twice among the seed, the intermediate nodes and the          *)
(* destination, also with a self-loop edge on a non-seed node.  Stated for *)
(* the case the claim singles out: graphs in which the seed has no         *)
(* self-loop, and calls with max_hops >= 1.                                *)
(***************************************************************************)
C4_SelfAvoidingPaths ==
    (hop_call # NoCall /\ "seed" \in DOMAIN hop_call /\ hop_call.max_hops >= 1
        /\ ~HasEdge(hop_call.seed, hop_call.seed)) =>
            \A h \in hop_rows : NoDuplicates(Append(h.path, h.dst))

(***************************************************************************)
(* C5  Every returned node has 1 <= hop_depth <= max_hops, for every       *)
(* max_hops >= 0.                                                          *)
(***************************************************************************)
C5_DepthWithinMaxHops ==
    \A r \in HopEntries : 1 <= r.hop_depth /\ r.hop_depth <= hop_call.max_hops

(***************************************************************************)
(* _rrf_fuse  (search.py 34-80)                                            *)
(*                                                                         *)
(* A result item is a record with the fields id, confidence and            *)
(* retrieval_path.  "+".join(paths) is kept as the sequence of the joined  *)
(* parts: <<"keyword", "vector">> stands for "keyword+vector".  A fused    *)
(* score is an integer number of 1/den, with den a common multiple of all  *)
(* k + rank + 1 of the call.                                               *)
(***************************************************************************)
RrfIds == {1, 2, 3}          \* ids of the items in the two lists
RrfKs == {1, 60}             \* k argument; 60 is the default

\* common denominator of 1/(k+1), ..., 1/(k+n)
RECURSIVE RrfDen(_, _)
RrfDen(k, n) == IF n = 0 THEN 1 ELSE (k + n) * RrfDen(k, n - 1)

\* a contribution that falls off twice as fast with the rank
ContributionSteeper(k, rank, den) == den \div (k + 2 * rank + 1)

\* 1.0 / (k + rank + 1) for the 0-based rank, in units of 1/den
Contribution(k, rank, den) == den \div (k + rank + 1)

\* the sum of the contributions of the first n positions of list that hold id
RECURSIVE ListScore(_, _, _, _, _)
ListScore(list, n, id, k, den) ==
    IF n = 0 THEN 0
    ELSE ListScore(list, n - 1, id, k, den)
           + (IF list[n].id = id THEN Contribution(k, n - 1, den) ELSE 0)

\* paths.setdefault(rid, []).append(tag): one tag per position of id
ListPaths(list, id, tag) ==
    [p \in 1..Cardinality({i \in DOMAIN list : list[i].id = id}) |-> tag]

\* the keys of the scores dict in insertion order: first appearances
InsertionOrder(list) ==
    LET firsts == {i \in DOMAIN list : \A j \in 1..(i - 1) : list[j].id # list[i].id}
    IN [p \in 1..Cardinality(firsts) |-> Keep(list, firsts)[p].id]

\* result_map[rid] = r: the last item with that id wins
ResultMap(list, id) ==
    list[CHOOSE i \in DOMAIN list :
            list[i].id = id /\ \A j \in DOMAIN list : list[j].id = id => j <= i]

\* round(x, 6) of x = num/den, in units of 1/1000000, by long division
RECURSIVE DecimalDigits(_, _, _, _)
DecimalDigits(rem, den, n, acc) ==
    IF n = 0 THEN acc + (IF 2 * rem >= den THEN 1 ELSE 0)
    ELSE DecimalDigits((rem * 10) % den, den, n - 1, acc * 10 + ((rem * 10) \div den))
Round6(num, den) == DecimalDigits(num % den, den, 6, num \div den)

\* the fused entry of rid: the item of result_map with rrf_score and
\* retrieval_path set
RrfEntry(keyword_results, vector_results, k, den, rid) ==
    With(ListScore(keyword_results, Len(keyword_results), rid, k, den)
            + ListScore(vector_results, Len(vector_results), rid, k, den), LAMBDA score :
    With([score |-> score, den |-> den, rrf_score |-> Round6(score, den),
          retrieval_path |-> ListPaths(keyword_results, rid, "keyword")
                               \o ListPaths(vector_results, rid, "vector")], LAMBDA added :
    With(ResultMap(keyword_results \o vector_results, rid), LAMBDA r :
        [f \in DOMAIN r \cup DOMAIN added |->
            IF f \in DOMAIN added THEN added[f] ELSE r[f]])))

\* _rrf_fuse(keyword_results, vector_results, k)
RrfFuse(keyword_results, vector_results, k) ==
    With(<<keyword_results, vector_results>>, LAMBDA lists :
        LET n == IF Len(lists[1]) >= Len(lists[2]) THEN Len(lists[1]) ELSE Len(lists[2])
        IN With(InsertionOrder(lists[1] \o lists[2]), LAMBDA keys :
              SortByScoreDesc([i \in 1..Len(keys) |->
                  RrfEntry(lists[1], lists[2], k, RrfDen(k, n), keys[i])])))

(***************************************************************************)
(* State machine of the fusion: one call on two ranked lists.  The keyword *)
(* list comes from ISAParagraph / GuideSection, whose primary key is id,   *)
(* so no id repeats in it; the vector list comes from a LanceDB table,     *)
(* which has no key (scripts/dup_check2.py, audit_ingestion.py look for    *)
(* the ids it holds more than once).                                       *)
(***************************************************************************)
\* _format_keyword_results on rows in descending relevance order
KeywordList(ids) ==
    [i \in DOMAIN ids |-> [id |-> ids[i], confidence |-> 10000 - 1000 * i,
                           retrieval_path |-> <<"keyword">>]]

\* _format_vector_results on rows in ascending distance order
VectorList(ids) ==
    [i \in DOMAIN ids |-> [id |-> ids[i], confidence |-> 9500 - 1000 * i,
                           retrieval_path |-> <<"vector">>]]

IdLists == UNION {[1..n -> RrfIds] : n \in 0..MaxList}

\* one call of _rrf_fuse
CallRrfFuse ==
    /\ rrf_call = NoCall
    /\ \E kw \in {ids \in IdLists : NoDuplicates(ids)}, vec \in IdLists, k \in RrfKs :
         \E fused \in {RrfFuse(KeywordList(kw), VectorList(vec), k)} :
            /\ rrf_call' = [keyword_results |-> KeywordList(kw),
                            vector_results |-> VectorList(vec), k |-> k]
            /\ rrf_out' = [fused |-> fused]
    /\ UNCHANGED <<hopVars, searchVars, toolVars>>

RrfNext == CallRrfFuse

SpecRrf == Init /\ [][RrfNext]_vars

RrfReturned == rrf_out # NoCall
ListIds(list) == {list[i].id : i \in DOMAIN list}
\* the 0-based rank at which id appears in list
RankIn(list, id) == (CHOOSE i \in DOMAIN list :
                        list[i].id = id /\ \A j \in DOMAIN list : list[j].id = id => i <= j) - 1
\* 1-based position of the first appearance of id in the keyword list followed by the vector list
FirstAppearance(id) ==
    LET both == rrf_call.keyword_results \o rrf_call.vector_results
    IN RankIn(both, id) + 1
\* the sum of 1/(k + r + 1) over the lists in which id appears at rank r, in units of 1/den
RrfScore(id, den) ==
    (IF id \in ListIds(rrf_call.keyword_results)
     THEN Contribution(rrf_call.k, RankIn(rrf_call.keyword_results, id), den) ELSE 0)
    + (IF id \in ListIds(rrf_call.vector_results)
       THEN Contribution(rrf_call.k, RankIn(rrf_call.vector_results, id), den) ELSE 0)
\* keyword, vector or keyword+vector according to the lists that contain id
RrfTag(id) ==
    (IF id \in ListIds(rrf_call.keyword_results) THEN <<"keyword">> ELSE << >>)
    \o (IF id \in ListIds(rrf_call.vector_results) THEN <<"vector">> ELSE << >>)

(***************************************************************************)
(* C6: _rrf_fuse gives every id the sum of 1/(k + r + 1) over the lists in *)
(* which it appears at 0-based rank r, returns every id of the union of    *)
(* the two lists exactly once, in descending order of that score with ties *)
(* in first-appearance order (keyword list before vector list), and tags   *)
(* retrieval_path keyword, vector or keyword+vector according to the lists *)
(* that contain the id.                                                    *)
(***************************************************************************)
C6_RrfFusion ==
    RrfReturned =>
        LET fused == rrf_out.fused
            union == ListIds(rrf_call.keyword_results) \cup ListIds(rrf_call.vector_results)
        IN /\ {fused[i].id : i \in DOMAIN fused} = union
           /\ Len(fused) = Cardinality(union)
           /\ \A i \in DOMAIN fused :
                /\ fused[i].score = RrfScore(fused[i].id, fused[i].den)
                /\ fused[i].rrf_score = Round6(RrfScore(fused[i].id, fused[i].den), fused[i].den)
                /\ fused[i].retrieval_path = RrfTag(fused[i].id)
           /\ \A i, j \in DOMAIN fused :
                i < j => \/ fused[i].score > fused[j].score
                         \/ /\ fused[i].score = fused[j].score
                            /\ FirstAppearance(fused[i].id) < FirstAppearance(fused[j].id)

(***************************************************************************)
(* Search: vectors.py and search.py                                        *)
(*                                                                         *)
(* The stores and the embedding service are the environment.  A search     *)
(* call is given the outcome of every external call it makes:              *)
(*   kw.ok, kw.match      the FTS query succeeds and matches these ids, or *)
(*                        raises;                                          *)
(*   vec.embed_ok         the Voyage embed call returns, or raises;        *)
(*   vec.ok, vec.rows     the LanceDB query succeeds and its table holds   *)
(*                        these rows nearest first, or raises.             *)
(* Tier 2 is ISAParagraph / isa_chunks, tier 1 is GuideSection / guides.   *)
(* BM25 scores are in units of 1/100000, distances in hundredths.          *)
(***************************************************************************)
IsaIds == {1, 2}             \* ISAParagraph ids
GuideIds == {11, 12}         \* GuideSection ids
TierIds(tier) == IF tier = 1 THEN GuideIds ELSE IsaIds
Modes == {"hybrid", "keyword", "vector"}
SearchMaxResults == {1, 3}   \* max_results arguments
IsaFilters == {"", "315"}        \* "" is no filter
GuideFilters == {"", "ISA_LCE"}
DefaultK == 60               \* k of _rrf_fuse when the caller passes none

\* match_bm25 score of a row for the query
Bm25(id) == CASE id = 1 -> 80000 [] id = 2 -> 70004 [] id = 11 -> 90004 [] OTHER -> 80000
\* _distance of a row from the query embedding
Distance(id) == CASE id = 1 -> 11 [] id = 2 -> 25 [] id = 11 -> 11 [] OTHER -> 25
\* isa_number of a paragraph, source_doc of a guide section
FilterKey(id) == CASE id = 1 -> "315" [] id = 2 -> "200" [] id = 11 -> "ISA_LCE" [] OTHER -> "other"

SetField(r, f, v) == [g \in DOMAIN r \cup {f} |-> IF g = f THEN v ELSE r[g]]

\* the rows whose isa_number / source_doc is the filter
FilterRows(rows, filter) ==
    With(rows, LAMBDA r : Keep(r, {i \in DOMAIN r : FilterKey(r[i].id) = filter}))

Raised == [raised |-> TRUE]

\* vectors.is_vector_search_available
IsVectorSearchAvailable == lancedb_db /\ voyage_available

\* _keyword_search / _guide_keyword_search: WHERE score IS NOT NULL [AND filter]
\* ORDER BY score DESC LIMIT max_results; any exception gives []
KeywordSearch(env, max_results, filter) ==
    With(SortedSeq({id \in env.kw.match : filter = "" \/ FilterKey(id) = filter}),
         LAMBDA order :
        [rows |-> IF env.kw.ok
                  THEN Take(SortByScoreDesc([i \in 1..Len(order) |->
                                [id |-> order[i], score |-> Bm25(order[i])]]), max_results)
                  ELSE << >>,
         trace |-> <<"execute_query">>])

\* vectors.get_embedding: None when Voyage is unavailable, else the result of
\* the embed call, whose exception is not caught
GetEmbedding(env) ==
    IF ~voyage_available \/ ~voyage_client
    THEN [value |-> "None", trace |-> << >>]
    ELSE [value |-> IF env.vec.embed_ok THEN "embedding" ELSE "raise",
          trace |-> <<"embed">>]

\* vectors.search_vectors: [] without LanceDB or on any exception
SearchVectors(env, limit, isa_filter) ==
    IF ~lancedb_db THEN [rows |-> << >>, trace |-> << >>]
    ELSE With([i \in DOMAIN env.vec.rows |->
                  [id |-> env.vec.rows[i], distance |-> Distance(env.vec.rows[i])]],
              LAMBDA table :
            [rows |-> IF ~env.vec.ok THEN << >>
                      ELSE IF isa_filter # "" THEN Take(FilterRows(table, isa_filter), limit)
                      ELSE Take(table, limit),
             trace |-> <<"lancedb">>])

\* a vector search that reports vector_used without testing the capability
VectorSearchAssumed(tier, env, max_results, filter) ==
    [rows |-> << >>, used |-> TRUE, raised |-> FALSE, trace |-> << >>]

\* _vector_search (tier 2) / _guide_vector_search (tier 1)
VectorSearch(tier, env, max_results, filter) ==
    IF ~IsVectorSearchAvailable
    THEN [rows |-> << >>, used |-> FALSE, raised |-> FALSE, trace |-> << >>]
    ELSE With(GetEmbedding(env), LAMBDA embedding :
            IF embedding.value = "raise"
            THEN [rows |-> << >>, used |-> FALSE, raised |-> TRUE, trace |-> embedding.trace]
            ELSE IF embedding.value = "None"
            THEN [rows |-> << >>, used |-> FALSE, raised |-> FALSE, trace |-> embedding.trace]
            ELSE With(SearchVectors(env, max_results, IF tier = 2 THEN filter ELSE ""),
                      LAMBDA res :
                    [rows |-> IF tier = 1 /\ filter # "" /\ res.rows # << >>
                              THEN FilterRows(res.rows, filter) ELSE res.rows,
                     used |-> TRUE, raised |-> FALSE,
                     trace |-> embedding.trace \o res.trace]))

\* round(float(score), 4)
KeywordConfidence(score) == (score + 5) \div 10
\* round(1.0 / (1.0 + distance), 4)
VectorConfidence(distance) == (2 * 1000000 + (100 + distance)) \div (2 * (100 + distance))

\* _format_keyword_results (tier 2) / _format_guide_keyword_results (tier 1)
FormatKeywordResults(rows, tier) ==
    [i \in DOMAIN rows |->
        LET item == [id |-> rows[i].id, confidence |-> KeywordConfidence(rows[i].score),
                     retrieval_path |-> <<"keyword">>]
        IN IF tier = 1 THEN SetField(item, "tier", 1) ELSE item]

\* _format_vector_results (tier 2) / _format_guide_vector_results (tier 1)
FormatVectorResults(rows, tier) ==
    [i \in DOMAIN rows |->
        LET item == [id |-> rows[i].id, confidence |-> VectorConfidence(rows[i].distance),
                     retrieval_path |-> <<"vector">>]
        IN IF tier = 1 THEN SetField(item, "tier", 1) ELSE item]

Response(results, search_type_used, warnings) ==
    With(results, LAMBDA r :
        [results |-> r, total_results |-> Len(r),
         search_type_used |-> search_type_used, warnings |-> warnings])

\* search_type == "keyword"
KeywordBranch(tier, search_type, kw) ==
    [raised |-> FALSE, trace |-> kw.trace,
     resp |-> Response(FormatKeywordResults(kw.rows, tier), search_type, << >>)]

\* search_type == "vector": the keyword search runs only as the fallback
VectorBranch(tier, search_type, kw, vs) ==
    IF vs.raised
    THEN [raised |-> TRUE, trace |-> vs.trace, resp |-> Raised]
    ELSE IF ~vs.used
    THEN [raised |-> FALSE, trace |-> vs.trace \o kw.trace,
          resp |-> Response(FormatKeywordResults(kw.rows, tier), "keyword",
                            <<"Vector search unavailable. Falling back to keyword search.">>)]
    ELSE [raised |-> FALSE, trace |-> vs.trace,
          resp |-> Response(FormatVectorResults(vs.rows, tier), search_type, << >>)]

\* any other search_type: hybrid
HybridBranch(tier, max_results, kw, vs) ==
    IF vs.raised
    THEN [raised |-> TRUE, trace |-> kw.trace \o vs.trace, resp |-> Raised]
    ELSE IF ~vs.used
    THEN [raised |-> FALSE, trace |-> kw.trace \o vs.trace,
          resp |-> Response(FormatKeywordResults(kw.rows, tier), "keyword",
                            <<"Vector search unavailable. Using keyword-only results.">>)]
    ELSE [raised |-> FALSE, trace |-> kw.trace \o vs.trace,
          resp |-> Response(Take(RrfFuse(FormatKeywordResults(kw.rows, tier),
                                         FormatVectorResults(vs.rows, tier), DefaultK),
                                 max_results), "hybrid", << >>)]

\* the body hybrid_search (tier 2) and guide_search (tier 1) share
TierSearch(tier, max_results, filter, search_type, env) ==
    With(KeywordSearch(env, max_results, filter), LAMBDA kw :
        IF search_type = "keyword" THEN KeywordBranch(tier, search_type, kw)
        ELSE With(VectorSearch(tier, env, max_results, filter), LAMBDA vs :
                IF search_type = "vector" THEN VectorBranch(tier, search_type, kw, vs)
                ELSE HybridBranch(tier, max_results, kw, vs)))

\* for r in results: r["tier"] = tier
TagTier(results, tier) ==
    With(results, LAMBDA rs : [i \in DOMAIN rs |-> SetField(rs[i], "tier", tier)])

HybridSearch(max_results, isa_filter, search_type, env) ==
    TierSearch(2, max_results, isa_filter, search_type, env)

GuideSearch(max_results, guide_filter, search_type, env) ==
    With(TierSearch(1, max_results, guide_filter, search_type, env), LAMBDA out :
        IF out.raised THEN out
        ELSE [out EXCEPT !.resp.results = TagTier(out.resp.results, 1)])

\* a ranking that ignores the tier
TierWeightsUniform(tier) == 100
\* TIER_WEIGHTS.get(tier, 1.0), in hundredths
TierWeights(tier) == IF tier = 1 THEN 85 ELSE 100

\* weighted_score = round(confidence * weight, 6), in units of 1/1000000
Weighted(r) == SetField(r, "weighted_score", r.confidence * TierWeights(r.tier))

\* all_results.sort(key=lambda x: -x["weighted_score"]): stable
PlaceByWeighted(rows, i) ==
    Cardinality({j \in DOMAIN rows :
        \/ rows[j].weighted_score > rows[i].weighted_score
        \/ rows[j].weighted_score = rows[i].weighted_score /\ j < i}) + 1
SortByWeightedDesc(rows) ==
    With(rows, LAMBDA r :
        [p \in DOMAIN r |-> r[CHOOSE i \in DOMAIN r : PlaceByWeighted(r, i) = p]])

\* _authority_dedup: every result, of either tier, is appended to deduped
AuthorityDedup(results) ==
    With(results, LAMBDA rs : Keep(rs, {i \in DOMAIN rs : rs[i].tier = 1 \/ rs[i].tier # 1}))

\* tier_counts[t] = tier_counts.get(t, 0) + 1 over the returned results
TierCounts(results) ==
    [t \in {results[i].tier : i \in DOMAIN results} |->
        Cardinality({i \in DOMAIN results : results[i].tier = t})]

\* the argument tiers: None, or a list
TiersArgs == {[given |-> FALSE, list |-> << >>], [given |-> TRUE, list |-> <<1>>],
              [given |-> TRUE, list |-> <<2>>], [given |-> TRUE, list |-> <<1, 2>>]}
EffectiveTiers(tiers) == IF ~tiers.given THEN {1, 2} ELSE Range(tiers.list)

NotRun == [raised |-> FALSE, trace |-> << >>, resp |-> Response(<< >>, "", << >>)]

\* the ranking of multi_tier_search from the tier responses on
MergeTiers(max_results, searched, search_type, guide, isa, seen) ==
    With(TagTier(guide.resp.results, 1) \o TagTier(isa.resp.results, 2), LAMBDA all_results :
    With(SortByWeightedDesc([i \in DOMAIN all_results |-> Weighted(all_results[i])]),
         LAMBDA sorted :
    With(Take(IF 1 \in searched /\ 2 \in searched THEN AuthorityDedup(sorted) ELSE sorted,
              max_results), LAMBDA limited :
        [raised |-> FALSE, trace |-> guide.trace \o isa.trace, tier_resp |-> seen,
         resp |-> [results |-> limited, total_results |-> Len(limited),
                   search_type_used |-> search_type,
                   tier_counts |-> TierCounts(limited),
                   warnings |-> guide.resp.warnings \o isa.resp.warnings]])))

\* multi_tier_search
MultiTierSearch(max_results, tiers, search_type, isa_filter, guide_filter, env1, env2) ==
    With(EffectiveTiers(tiers), LAMBDA searched :
    With(IF 1 \in searched
         THEN GuideSearch(max_results, guide_filter, search_type, env1) ELSE NotRun,
         LAMBDA guide :
    With(IF 2 \in searched /\ ~guide.raised
         THEN HybridSearch(max_results, isa_filter, search_type, env2) ELSE NotRun,
         LAMBDA isa :
    With([t \in {1, 2} |->
            IF t = 1 THEN (IF 1 \in searched THEN guide.resp ELSE NoCall)
            ELSE (IF 2 \in searched /\ ~guide.raised THEN isa.resp ELSE NoCall)],
         LAMBDA seen :
        IF guide.raised \/ isa.raised
        THEN [raised |-> TRUE, trace |-> guide.trace \o isa.trace, tier_resp |-> seen,
              resp |-> Raised]
        ELSE MergeTiers(max_results, searched, search_type, guide, isa, seen)))))

(***************************************************************************)
(* State machine of the search component.  The server's lifespan runs      *)
(* init_vectors before it serves and close_vectors after; a search call is *)
(* one step, and one call is observed per behaviour.                       *)
(***************************************************************************)
\* rows of a LanceDB table nearest first; the table has no key, an id can repeat
NearestFirst(ids) ==
    {rows \in UNION {[1..n -> ids] : n \in 0..MaxList} :
        \A i, j \in DOMAIN rows : i < j => Distance(rows[i]) <= Distance(rows[j])}

\* outcomes of the FTS query, when the call makes it
KwOutcomes(tier, made) ==
    IF ~made THEN {[match |-> {}, ok |-> TRUE]}
    ELSE {[match |-> {}, ok |-> FALSE]}
            \cup {[match |-> m, ok |-> TRUE] : m \in SUBSET TierIds(tier)}

\* outcomes of the embed call and of the LanceDB query, when the call makes them
VecOutcomes(tier, made) ==
    IF ~made THEN {[ok |-> TRUE, embed_ok |-> TRUE, rows |-> << >>]}
    ELSE {[ok |-> TRUE, embed_ok |-> FALSE, rows |-> << >>],
          [ok |-> FALSE, embed_ok |-> TRUE, rows |-> << >>]}
            \cup {[ok |-> TRUE, embed_ok |-> TRUE, rows |-> r] : r \in NearestFirst(TierIds(tier))}

\* the outcomes of the external calls that one tier's search makes
TierEnvs(tier, search_type, runs) ==
    LET embeds == IsVectorSearchAvailable /\ voyage_client
    IN {[kw |-> k, vec |-> v] :
            k \in KwOutcomes(tier, runs /\ (search_type # "vector" \/ ~embeds)),
            v \in VecOutcomes(tier, runs /\ search_type # "keyword" /\ embeds)}

\* vectors.init_vectors; connected: the LanceDB directory exists and connect
\* succeeds; client: VOYAGE_API_KEY is set and the client is constructed
InitVectors(connected, client) ==
    /\ search_call = NoCall
    /\ lancedb_db' = (lancedb_db \/ connected)
    /\ voyage_client' = (voyage_client \/ client)
    /\ voyage_available' = IF voyage_client THEN voyage_available ELSE client
    /\ UNCHANGED <<hopVars, rrfVars, search_call, search_trace, tier_resp, search_resp, toolVars>>

\* vectors.close_vectors
CloseVectors ==
    /\ search_call = NoCall
    /\ lancedb_db' = FALSE
    /\ voyage_client' = FALSE
    /\ voyage_available' = FALSE
    /\ UNCHANGED <<hopVars, rrfVars, search_call, search_trace, tier_resp, search_resp, toolVars>>

\* a call of hybrid_search
CallHybridSearch ==
    /\ search_call = NoCall
    /\ \E max_results \in SearchMaxResults, isa_filter \in IsaFilters, search_type \in Modes :
         \E env \in TierEnvs(2, search_type, TRUE) :
           \E out \in {HybridSearch(max_results, isa_filter, search_type, env)} :
              /\ search_call' = [fn |-> "hybrid_search", max_results |-> max_results,
                                 filter |-> isa_filter, search_type |-> search_type,
                                 tiers |-> {2}, env |-> [t \in {1, 2} |-> env]]
              /\ search_trace' = out.trace
              /\ search_resp' = out.resp
    /\ UNCHANGED <<hopVars, rrfVars, vectorVars, tier_resp, toolVars>>

\* a call of guide_search
CallGuideSearch ==
    /\ search_call = NoCall
    /\ \E max_results \in SearchMaxResults, guide_filter \in GuideFilters, search_type \in Modes :
         \E env \in TierEnvs(1, search_type, TRUE) :
           \E out \in {GuideSearch(max_results, guide_filter, search_type, env)} :
              /\ search_call' = [fn |-> "guide_search", max_results |-> max_results,
                                 filter |-> guide_filter, search_type |-> search_type,
                                 tiers |-> {1}, env |-> [t \in {1, 2} |-> env]]
              /\ search_trace' = out.trace
              /\ search_resp' = out.resp
    /\ UNCHANGED <<hopVars, rrfVars, vectorVars, tier_resp, toolVars>>

\* a call of multi_tier_search; the second tier's search makes its external
\* calls only if the first tier's search returned
CallMultiTierSearch ==
    /\ search_call = NoCall
    /\ \E max_results \in SearchMaxResults, tiers \in TiersArgs, search_type \in Modes,
          isa_filter \in IsaFilters, guide_filter \in GuideFilters :
         \E env1 \in TierEnvs(1, search_type, 1 \in EffectiveTiers(tiers)) :
           \E env2 \in TierEnvs(2, search_type,
                                2 \in EffectiveTiers(tiers) /\ env1.vec.embed_ok) :
             \E out \in {MultiTierSearch(max_results, tiers, search_type,
                                         isa_filter, guide_filter, env1, env2)} :
                /\ search_call' = [fn |-> "multi_tier_search", max_results |-> max_results,
                                   filter |-> <<guide_filter, isa_filter>>,
                                   search_type |-> search_type,
                                   tiers |-> EffectiveTiers(tiers),
                                   env |-> [t \in {1, 2} |-> IF t = 1 THEN env1 ELSE env2]]
                /\ search_trace' = out.trace
                /\ tier_resp' = out.tier_resp
                /\ search_resp' = out.resp
    /\ UNCHANGED <<hopVars, rrfVars, vectorVars, toolVars>>

SearchNext ==
    \/ \E connected, client \in BOOLEAN : InitVectors(connected, client)
    \/ CloseVectors
    \/ CallHybridSearch
    \/ CallGuideSearch
    \/ CallMultiTierSearch

SpecSearch == Init /\ [][SearchNext]_vars

\* the search call of the behaviour is a call of hybrid_search or guide_search
TierCall == search_call # NoCall /\ search_call.fn \in {"hybrid_search", "guide_search"}
MultiTierCall == search_call # NoCall /\ search_call.fn = "multi_tier_search"
CalledTier == IF search_call.fn = "guide_search" THEN 1 ELSE 2
SearchReturned == search_resp # NoCall /\ search_resp # Raised
\* an external call of the tier's search failed
TierFailed(t) ==
    \/ ~search_call.env[t].kw.ok
    \/ ~search_call.env[t].vec.embed_ok
    \/ ~search_call.env[t].vec.ok
\* what the keyword store alone gives for the call, formatted
KeywordOnly ==
    FormatKeywordResults(
        KeywordSearch(search_call.env[CalledTier], search_call.max_results,
                      search_call.filter).rows, CalledTier)

(***************************************************************************)
(* C7: with the vector capability unavailable, hybrid_search and           *)
(* guide_search in mode hybrid or vector return the keyword-only results   *)
(* with search_type_used = "keyword" and a non-empty warnings list; with   *)
(* it available, search_type_used is the requested mode and no fallback    *)
(* warning is added; mode keyword never invokes the embedding function or  *)
(* the vector store.                                                       *)
(***************************************************************************)
C7_FallbackReported ==
    TierCall =>
        /\ (~IsVectorSearchAvailable /\ search_call.search_type \in {"hybrid", "vector"}) =>
              /\ SearchReturned
              /\ search_resp.results = KeywordOnly
              /\ search_resp.total_results = Len(KeywordOnly)
              /\ search_resp.search_type_used = "keyword"
              /\ search_resp.warnings # << >>
        /\ (IsVectorSearchAvailable /\ SearchReturned) =>
              /\ search_resp.search_type_used = search_call.search_type
              /\ search_resp.warnings = << >>
        /\ search_call.search_type = "keyword" =>
              /\ "embed" \notin Range(search_trace)
              /\ "lancedb" \notin Range(search_trace)
              /\ SearchReturned /\ search_resp.results = KeywordOnly

\* guide_search in mode vector without the capability returns both keyword rows
C7_Witness ==
    /\ TierCall /\ search_call.fn = "guide_search"
    /\ search_call.search_type = "vector"
    /\ ~IsVectorSearchAvailable
    /\ SearchReturned
    /\ Len(search_resp.results) = 2
    /\ search_resp.search_type_used = "keyword"
    /\ Len(search_resp.warnings) = 1

(***************************************************************************)
(* C8: hybrid_search and guide_search never propagate an exception when    *)
(* the keyword store query, the vector store query or the embedding call   *)
(* fails: in every mode they return a result dict, whose result list is    *)
(* then empty or keyword-only.                                             *)
(***************************************************************************)
C8_NeverRaises ==
    TierCall =>
        /\ search_resp # Raised
        /\ TierFailed(CalledTier) =>
              \A i \in DOMAIN search_resp.results :
                  search_resp.results[i].retrieval_path = <<"keyword">>

\* the results the tier searches of the multi_tier_search call returned: <<tier, position>>
Candidates ==
    UNION {{<<t, i>> : i \in DOMAIN tier_resp[t].results} : t \in search_call.tiers}
CandidateItem(c) == tier_resp[c[1]].results[c[2]]
\* confidence x tier weight, in units of 1/1000000
AuthorityScore(confidence, tier) == confidence * (IF tier = 2 THEN 100 ELSE 85)

(***************************************************************************)
(* C9: multi_tier_search orders the merged results of the searched tiers   *)
(* by confidence x tier weight, descending, with weight 1.0 for tier 2 and *)
(* 0.85 for tier 1, truncates the list to max_results and reports          *)
(* tier_counts whose values sum to total_results; a tier-2 item of         *)
(* confidence 0.8 ranks above a tier-1 item of confidence 0.9.             *)
(***************************************************************************)
C9_AuthorityRanking ==
    (MultiTierCall /\ SearchReturned) =>
        LET res == search_resp.results
            counts == search_resp.tier_counts
        IN /\ \A i \in DOMAIN res :
                /\ res[i].weighted_score = AuthorityScore(res[i].confidence, res[i].tier)
                /\ \E c \in Candidates :
                      /\ res[i].tier = c[1]
                      /\ res[i].id = CandidateItem(c).id
                      /\ res[i].confidence = CandidateItem(c).confidence
                \* the items that outrank it all precede it
                /\ Cardinality({c \in Candidates :
                        AuthorityScore(CandidateItem(c).confidence, c[1])
                            > res[i].weighted_score}) < i
           /\ \A i, j \in DOMAIN res :
                i < j => res[i].weighted_score >= res[j].weighted_score
           /\ Len(res) = IF Cardinality(Candidates) <= search_call.max_results
                         THEN Cardinality(Candidates) ELSE search_call.max_results
           /\ search_resp.total_results = Len(res)
           /\ \A t \in DOMAIN counts :
                counts[t] = Cardinality({i \in DOMAIN res : res[i].tier = t})
           /\ \A i \in DOMAIN res : res[i].tier \in DOMAIN counts
           /\ \A i, j \in DOMAIN res :
                (res[i].tier = 2 /\ res[i].confidence = 8000
                    /\ res[j].tier = 1 /\ res[j].confidence = 9000) => i < j

\* both tiers searched: the ISA paragraph of confidence 0.8 is returned ahead
\* of the guide section of confidence 0.9
C9_Witness ==
    /\ MultiTierCall /\ SearchReturned
    /\ search_call.tiers = {1, 2}
    /\ Len(search_resp.results) = 3
    /\ search_resp.results[1].tier = 2 /\ search_resp.results[1].confidence = 8000
    /\ search_resp.results[2].tier = 1 /\ search_resp.results[2].confidence = 9000
    /\ search_resp.tier_counts[1] + search_resp.tier_counts[2] = 3

(***************************************************************************)
(* C10: in multi_tier_search over both tiers, a failure inside one tier's  *)
(* search never blanks the other tier: the results the other tier's search *)
(* produced are still returned in the merged result (all of them when the  *)
(* merged list is not cut at max_results).                                 *)
(***************************************************************************)
C10_TierIsolation ==
    (MultiTierCall /\ search_call.tiers = {1, 2}) =>
        \A t \in {1, 2} :
            TierFailed(t) =>
                LET other == 3 - t
                IN /\ search_resp # Raised
                   /\ (Cardinality(Candidates) <= search_call.max_results) =>
                        \A k \in DOMAIN tier_resp[other].results :
                            \E i \in DOMAIN search_resp.results :
                                /\ search_resp.results[i].tier = other
                                /\ search_resp.results[i].id = tier_resp[other].results[k].id

(***************************************************************************)
(* Context assembler: format_context  (context.py)                         *)
(*                                                                         *)
(* A paragraph is [id, content_len]: grouping reads para["id"], budgeting  *)
(* reads len(para["content"]).  The XML document is kept as a record of    *)
(* its attributes and its <result> elements; total_tokens_estimated, the   *)
(* length of the rendered text, is not modelled.                           *)
(***************************************************************************)
MaxParas == 3      \* longest paragraph list enumerated item by item

ParaIds == {1, 2}
ContentLens == {100, 900}              \* len(content)
Paragraphs == [id : ParaIds, content_len : ContentLens]
MaxTokensArgs == {0, 50, 400, 8000}    \* max_tokens argument

RoleOrder == <<"primary", "supporting", "context">>
RoleNames == Range(RoleOrder)

\* the roles argument: None or a dict id -> role; "appendix" is no role
RoleMaps == UNION {[ids -> RoleNames \cup {"appendix"}] : ids \in SUBSET ParaIds}

CHARS_PER_TOKEN == 4

ROLE_CAPS == [primary |-> 999, supporting |-> 15, context |-> 5]

\* _ROLE_BUDGET_SPLIT, in percent
ROLE_BUDGET_SPLIT == [primary |-> 60, supporting |-> 30, context |-> 10]

\* int(x) of the quotient num / den: truncation toward zero
IntOf(num, den) == IF num >= 0 THEN num \div den ELSE -((-num) \div den)

\* role = role_map.get(pid, "primary"); if role not in grouped: "primary"
RoleOf(para, role_map) ==
    IF para.id \in DOMAIN role_map /\ role_map[para.id] \in RoleNames
    THEN role_map[para.id]
    ELSE "primary"

\* grouped[role] after the loop "for para in paragraphs" has run over
\* paragraphs[lo..hi]: the paragraphs of that role, in input order
RECURSIVE GroupOf(_, _, _, _, _)
GroupOf(paragraphs, role_map, role, lo, hi) ==
    IF lo > hi THEN << >>
    ELSE IF lo = hi
    THEN IF RoleOf(paragraphs[lo], role_map) = role THEN <<paragraphs[lo]>> ELSE << >>
    ELSE With(GroupOf(paragraphs, role_map, role, lo, (lo + hi) \div 2),
              LAMBDA left :
                  left \o GroupOf(paragraphs, role_map, role, (lo + hi) \div 2 + 1, hi))

AssignRoles(paragraphs, role_map) ==
    [role \in RoleNames |-> GroupOf(paragraphs, role_map, role, 1, Len(paragraphs))]

\* if len(grouped[role]) > cap: grouped[role] = grouped[role][:cap]
ApplyRoleCaps(grouped) ==
    [role \in RoleNames |->
        IF Len(grouped[role]) > ROLE_CAPS[role]
        THEN SubSeq(grouped[role], 1, ROLE_CAPS[role])
        ELSE grouped[role]]

\* ordered: primary first, then supporting, then context
Ordered(grouped) ==
    LET tag(role) == [i \in 1..Len(grouped[role]) |-> [role |-> role, para |-> grouped[role][i]]]
    IN tag("primary") \o tag("supporting") \o tag("context")

FillStart == [included |-> << >>, chars_used |-> 0, excluded_count |-> 0]

\* the flat loop body with the exclusion not counted
FlatStepUncounted(item, rank, available_chars, st) ==
    LET result_chars == item.para.content_len + 200
        entry == [rank |-> rank, role |-> item.role, para |-> item.para]
    IN IF st.chars_used + result_chars > available_chars /\ Len(st.included) # 0
       THEN st
       ELSE [st EXCEPT !.included = Append(@, entry), !.chars_used = @ + result_chars]

\* the flat loop body without the branch "if len(included) == 0"
FlatStepStrict(item, rank, available_chars, st) ==
    LET result_chars == item.para.content_len + 200
        entry == [rank |-> rank, role |-> item.role, para |-> item.para]
    IN IF st.chars_used + result_chars > available_chars
       THEN [st EXCEPT !.excluded_count = @ + 1]
       ELSE [st EXCEPT !.included = Append(@, entry), !.chars_used = @ + result_chars]

\* one iteration of "for rank_idx, (role, para) in enumerate(ordered)",
\* rank = rank_idx + 1
FlatStep(item, rank, available_chars, st) ==
    LET result_chars == item.para.content_len + 200
        entry == [rank |-> rank, role |-> item.role, para |-> item.para]
    IN IF st.chars_used + result_chars > available_chars
       THEN IF Len(st.included) = 0
            THEN [st EXCEPT !.included = Append(@, entry), !.chars_used = @ + result_chars]
            ELSE [st EXCEPT !.excluded_count = @ + 1]
       ELSE [st EXCEPT !.included = Append(@, entry), !.chars_used = @ + result_chars]

\* the iterations rank = lo .. hi of the flat loop, entered in state st
RECURSIVE FlatLoop(_, _, _, _, _)
FlatLoop(ordered, available_chars, lo, hi, st) ==
    IF lo > hi THEN st
    ELSE IF lo = hi THEN FlatStep(ordered[lo], lo, available_chars, st)
    ELSE With(FlatLoop(ordered, available_chars, lo, (lo + hi) \div 2, st),
              LAMBDA half :
                  FlatLoop(ordered, available_chars, (lo + hi) \div 2 + 1, hi, half))

\* sum(1 for _, ro, _ in included if ro == r)
CountRole(included, role) == Cardinality({i \in DOMAIN included : included[i].role = role})

\* _format_flat(grouped, query, max_tokens, total_paragraphs)
FormatFlat(grouped, max_tokens, total_paragraphs) ==
    LET max_chars == max_tokens * CHARS_PER_TOKEN
        header_chars == 200
        available_chars == max_chars - header_chars
    IN With(Ordered(grouped), LAMBDA ordered :
       With(FlatLoop(ordered, available_chars, 1, Len(ordered), FillStart), LAMBDA st :
          [xml |-> [format |-> "flat",
                    total_results |-> total_paragraphs,
                    included_results |-> Len(st.included),
                    token_budget |-> max_tokens,
                    results |-> st.included,
                    excluded |-> st.excluded_count],
           included_count |-> Len(st.included),
           excluded_count |-> st.excluded_count,
           role_counts |-> [r \in RoleNames |-> CountRole(st.included, r)]]))

\* the role loop body without the budget test
RoleStepUnbudgeted(para, role, global_rank, budget, st) ==
    LET result_chars == para.content_len + 200
        entry == [rank |-> global_rank, role |-> role, para |-> para]
    IN [st EXCEPT !.included = Append(@, entry), !.chars_used = @ + result_chars]

\* one iteration of "for para in grouped[role]" in _format_role_grouped,
\* global_rank already incremented
RoleStep(para, role, global_rank, budget, st) ==
    LET result_chars == para.content_len + 200
        entry == [rank |-> global_rank, role |-> role, para |-> para]
    IN IF st.chars_used + result_chars > budget
       THEN IF Len(st.included) = 0
            THEN [st EXCEPT !.included = Append(@, entry), !.chars_used = @ + result_chars]
            ELSE [st EXCEPT !.excluded_count = @ + 1]
       ELSE [st EXCEPT !.included = Append(@, entry), !.chars_used = @ + result_chars]

\* the iterations lo .. hi of the loop over one role's group, entered in
\* state st; ranked is the value of global_rank before the group
RECURSIVE RoleLoop(_, _, _, _, _, _, _)
RoleLoop(group, role, ranked, budget, lo, hi, st) ==
    IF lo > hi THEN st
    ELSE IF lo = hi THEN RoleStep(group[lo], role, ranked + lo, budget, st)
    ELSE With(RoleLoop(group, role, ranked, budget, lo, (lo + hi) \div 2, st),
              LAMBDA half :
                  RoleLoop(group, role, ranked, budget, (lo + hi) \div 2 + 1, hi, half))

\* _format_role_grouped(grouped, query, max_tokens)
FormatRoleGrouped(grouped, max_tokens) ==
    LET total_paragraphs == Len(grouped.primary) + Len(grouped.supporting) + Len(grouped.context)
        max_chars == max_tokens * CHARS_PER_TOKEN
        header_chars == 300
        available_chars == max_chars - header_chars
        role_budgets == [role \in RoleNames |->
                            IntOf(available_chars * ROLE_BUDGET_SPLIT[role], 100)]
        ranked == [primary |-> 0, supporting |-> Len(grouped.primary),
                   context |-> Len(grouped.primary) + Len(grouped.supporting)]
    IN With([role \in RoleNames |->
                RoleLoop(grouped[role], role, ranked[role], role_budgets[role],
                         1, Len(grouped[role]), FillStart)],
            LAMBDA filled :
       With([role \in RoleNames |-> filled[role].included], LAMBDA included_by_role :
          LET total_included == Len(included_by_role.primary)
                                  + Len(included_by_role.supporting)
                                  + Len(included_by_role.context)
              excluded_count == filled.primary.excluded_count
                                  + filled.supporting.excluded_count
                                  + filled.context.excluded_count
          IN [xml |-> [format |-> "role_grouped",
                       total_results |-> total_paragraphs,
                       included_results |-> total_included,
                       token_budget |-> max_tokens,
                       results |-> included_by_role.primary \o included_by_role.supporting
                                     \o included_by_role.context,
                       excluded |-> excluded_count],
              included_count |-> total_included,
              excluded_count |-> excluded_count,
              role_counts |-> [r \in RoleNames |-> Len(included_by_role[r])]]))

\* what format_context returns for an empty paragraph list
NoResults(max_tokens) ==
    [xml |-> [format |-> "no_results", total_results |-> 0, included_results |-> 0,
              token_budget |-> max_tokens, results |-> << >>, excluded |-> 0],
     included_count |-> 0,
     excluded_count |-> 0,
     role_counts |-> [r \in RoleNames |-> 0]]

\* format_context(paragraphs, query, max_tokens, roles, group_by_role): the
\* role groups handed to budgeting and the dict returned
FormatContext(paragraphs, max_tokens, roles, group_by_role) ==
    IF paragraphs = << >>
    THEN [grouped |-> NoCall, result |-> NoResults(max_tokens)]
    ELSE With(ApplyRoleCaps(AssignRoles(paragraphs, roles)), LAMBDA grouped :
            [grouped |-> grouped,
             result |-> IF group_by_role
                        THEN FormatRoleGrouped(grouped, max_tokens)
                        ELSE FormatFlat(grouped, max_tokens, Len(paragraphs))])

\* a list one longer than a role cap: the same id throughout, content
\* lengths alternating
LongList(n) == [i \in 1..n |-> [id |-> 1, content_len |-> IF i % 2 = 1 THEN 100 ELSE 900]]

ParagraphLists ==
    UNION {[1..n -> Paragraphs] : n \in 0..MaxParas}
        \cup {LongList(ROLE_CAPS[role] + 1) : role \in RoleNames}

(***************************************************************************)
(* State machine of the context assembler.                                 *)
(***************************************************************************)
CallFormatContext ==
    /\ ctx_call = NoCall
    /\ \E paragraphs \in ParagraphLists, max_tokens \in MaxTokensArgs,
          roles \in RoleMaps, group_by_role \in BOOLEAN :
          \E out \in {FormatContext(paragraphs, max_tokens, roles, group_by_role)} :
             /\ ctx_call' = [paragraphs |-> paragraphs, max_tokens |-> max_tokens,
                             roles |-> roles, group_by_role |-> group_by_role]
             /\ ctx_grouped' = out.grouped
             /\ ctx_result' = out.result
    /\ UNCHANGED <<hopVars, rrfVars, searchVars, verifyVars, guideVars, serviceVars>>

ContextNext == CallFormatContext

SpecContext == Init /\ [][ContextNext]_vars

ContextReturned == ctx_result # NoCall

(***************************************************************************)
(* Claims about format_context.                                            *)
(***************************************************************************)
\* the paragraphs of the call whose role is r, in input order
CallGroup(r) == SelectSeq(ctx_call.paragraphs, LAMBDA p : RoleOf(p, ctx_call.roles) = r)

\* the number of candidates left once each role is cut to its ROLE_CAPS entry
CandidatesAfterCaps ==
    LET capped(r) == IF Len(CallGroup(r)) > ROLE_CAPS[r] THEN ROLE_CAPS[r] ELSE Len(CallGroup(r))
    IN capped("primary") + capped("supporting") + capped("context")

\* C11: for every input, role mapping, budget and output mode, the returned
\* included_count + excluded_count equals the number of candidates that
\* remain after the per-role caps have been applied.
C11_CountsCoverCandidates ==
    ContextReturned =>
        ctx_result.included_count + ctx_result.excluded_count = CandidatesAfterCaps

\* a call where a cap removed a candidate and the budget excluded others
C11_Witness ==
    /\ ContextReturned
    /\ CandidatesAfterCaps < Len(ctx_call.paragraphs)
    /\ ctx_result.excluded_count > 0
    /\ ctx_result.included_count > 1

\* C12: format_context includes at least one item when it can: in flat mode
\* a non-empty input gives included_count >= 1 whatever the budget, and in
\* role-grouped mode every role with a candidate has an included item.
C12_AtLeastOneIncluded ==
    ContextReturned /\ ctx_call.paragraphs # << >> =>
        /\ ctx_result.included_count >= 1
        /\ ctx_call.group_by_role =>
              \A r \in RoleNames : CallGroup(r) # << >> => ctx_result.role_counts[r] >= 1

\* the available budget is negative, each role has a candidate, and each
\* role still has an included item
C12_Witness ==
    /\ ContextReturned
    /\ ctx_call.group_by_role
    /\ ctx_call.max_tokens * CHARS_PER_TOKEN < 200
    /\ \A r \in {"primary", "supporting"} : CallGroup(r) # << >> /\ ctx_result.role_counts[r] >= 1

\* C13: in flat mode the included items form a prefix of the ordered
\* candidate list: after the first exclusion every later item is excluded.
C13_IncludedIsPrefix ==
    ContextReturned /\ ~ctx_call.group_by_role =>
        \A i \in DOMAIN ctx_result.xml.results : ctx_result.xml.results[i].rank = i

\* C14: at most 15 supporting and 5 context candidates reach budgeting, the
\* first ones in input order; primary candidates are never dropped by a cap;
\* an id without a role mapping or with an unknown role counts as primary.
C14_RoleCaps ==
    ctx_grouped # NoCall =>
        LET claimed(p) == IF p.id \in DOMAIN ctx_call.roles
                             /\ ctx_call.roles[p.id] \in {"supporting", "context"}
                          THEN ctx_call.roles[p.id]
                          ELSE "primary"
            all(r) == SelectSeq(ctx_call.paragraphs, LAMBDA p : claimed(p) = r)
        IN /\ ctx_grouped.supporting = Take(all("supporting"), 15)
           /\ ctx_grouped.context = Take(all("context"), 5)
           /\ ctx_grouped.primary = all("primary")

(***************************************************************************)
(* citation_verify  (verify.py 123-232)                                    *)
(***************************************************************************)
MaxCitations == 4      \* longest citation list

stop_words ==
    {"the", "and", "for", "that", "this", "with", "from", "are", "was", "were",
     "been", "have", "has", "not", "but", "can", "should", "shall", "may", "must"}

\* claim_terms: words of 4 or more characters that are no stop words
ClaimTerms(claim_lower) == SelectSeq(FindWords(claim_lower, 4), LAMBDA w : w \notin stop_words)

\* the row the citation designates, or NoCall for row = None
CitedRow(pid, pref) ==
    IF pid # ""
    THEN LET rows == {r \in KbRows : r.id = pid}
         IN IF rows # {} THEN CHOOSE r \in rows : TRUE ELSE NoCall
    ELSE IF pref # ""
    THEN LET clean_ref == Strip(StripIsaPrefix(pref))
             rows == {r \in KbRows : r.paragraph_ref = clean_ref}
         IN IF rows # {} THEN CHOOSE r \in rows : TRUE ELSE NoCall
    ELSE NoCall

\* supports = term_overlap > 0.3
SupportsStrictly(matching_terms, total_claim_terms) ==
    10 * matching_terms > 3 * total_claim_terms

\* supports = term_overlap >= 0.3, term_overlap = matching_terms / len(claim_terms)
Supports(matching_terms, total_claim_terms) ==
    10 * matching_terms >= 3 * total_claim_terms

\* the body of the loop "for citation in citations": the details entry
VerifyCitation(citation) ==
    With(CitedRow(citation.paragraph_id, citation.paragraph_ref), LAMBDA row :
        IF row = NoCall
        THEN [paragraph_id |-> IF citation.paragraph_id # "" THEN citation.paragraph_id
                               ELSE citation.paragraph_ref,
              exists |-> FALSE, supports_claim |-> FALSE,
              matching_terms |-> 0, total_claim_terms |-> 0]
        ELSE With(Lower(row.content), LAMBDA content :
             With(ClaimTerms(Strip(Lower(citation.claim))), LAMBDA claim_terms :
                IF claim_terms = << >>
                THEN [paragraph_id |-> row.id, exists |-> TRUE, supports_claim |-> TRUE,
                      matching_terms |-> 0, total_claim_terms |-> 0]
                ELSE LET matching_terms ==
                             Cardinality({i \in DOMAIN claim_terms : Contains(content, claim_terms[i])})
                     IN [paragraph_id |-> row.id, exists |-> TRUE,
                         supports_claim |-> Supports(matching_terms, Len(claim_terms)),
                         matching_terms |-> matching_terms,
                         total_claim_terms |-> Len(claim_terms)])))

\* citation_verify(citations)
CitationVerify(citations) ==
    IF citations = << >>
    THEN [score |-> 10000, passed |-> TRUE, details |-> << >>, total_citations |-> 0]
    ELSE With([i \in DOMAIN citations |-> VerifyCitation(citations[i])], LAMBDA details :
            LET verified_count == Cardinality({i \in DOMAIN details : details[i].supports_claim})
            IN [score |-> RoundRatio4(verified_count, Len(citations)),
                passed |-> 4 * verified_count >= 3 * Len(citations),
                details |-> details,
                total_citations |-> Len(citations),
                verified_count |-> verified_count])

ClaimExact30 == "Auditor risk assess planning sampling fraud estimates inventory letters opinion"
ClaimBelow30 == "Auditor risk planning sampling fraud estimates inventory"
ClaimNoTerms == "This shall not be"

\* the citations tried: paragraph_id, paragraph_ref ("" for a missing key)
\* and claim
Citations ==
    {[paragraph_id |-> "ip_0", paragraph_ref |-> "", claim |-> ClaimExact30],
     [paragraph_id |-> "ip_0", paragraph_ref |-> "", claim |-> ClaimBelow30],
     [paragraph_id |-> "ip_0", paragraph_ref |-> "", claim |-> ClaimNoTerms],
     [paragraph_id |-> "ip_99", paragraph_ref |-> "315.1", claim |-> ClaimExact30],
     [paragraph_id |-> "", paragraph_ref |-> "ISA 315.1", claim |-> ClaimExact30],
     [paragraph_id |-> "", paragraph_ref |-> "", claim |-> ClaimNoTerms]}

CitationLists == UNION {[1..n -> Citations] : n \in 0..MaxCitations}

CallCitationVerify ==
    /\ verify_call = NoCall
    /\ \E citations \in CitationLists :
          \E out \in {CitationVerify(citations)} :
             /\ verify_call' = [tool |-> "citation_verify", citations |-> citations]
             /\ verify_result' = out
    /\ UNCHANGED <<hopVars, rrfVars, searchVars, contextVars, cites, guideVars, serviceVars>>

(***************************************************************************)
(* Claims about citation_verify.                                           *)
(***************************************************************************)
CitationReturned == verify_result # NoCall /\ verify_call.tool = "citation_verify"

\* the citation's record resolves: a row has the given id or, when no id is
\* given, the given reference without its ISA prefix
Resolves(c) ==
    \E r \in KbRows :
        \/ c.paragraph_id # "" /\ r.id = c.paragraph_id
        \/ c.paragraph_id = "" /\ c.paragraph_ref # ""
              /\ r.paragraph_ref = Strip(StripIsaPrefix(c.paragraph_ref))

\* the qualifying tokens of a claim, and how many occur in the content of
\* the row with the given id
Qualifying(claim) == ClaimTerms(Strip(Lower(claim)))

Occurring(claim, id) ==
    LET content == Lower((CHOOSE r \in KbRows : r.id = id).content)
        terms == Qualifying(claim)
    IN Cardinality({i \in DOMAIN terms : Contains(content, terms[i])})

MaxEntities == 3       \* longest entity list enumerated item by item
MaxSources == 2        \* longest list of source paragraph ids

Entities == {"Auditor", "ISA risk", "risk assessment", "internal control"}

\* a list of five entities, the first k of them "Auditor"
FiveEntities(k) == [i \in 1..5 |-> IF i <= k THEN "Auditor" ELSE "internal control"]

EntityLists ==
    UNION {[1..n -> Entities] : n \in 0..MaxEntities} \cup {FiveEntities(k) : k \in 3..5}

SourceIds == {"ip_0", "ip_1", "ip_99"}

SourceIdLists == UNION {[1..n -> SourceIds] : n \in 0..MaxSources}

\* the orders in which a SELECT without ORDER BY can deliver a set of rows
RowOrders(rows) ==
    {order \in [1..Cardinality(rows) -> rows] :
        \A i, j \in 1..Cardinality(rows) : order[i] = order[j] => i = j}

\* SELECT ... FROM ISAParagraph WHERE id IN (ids)
RowsWithIds(ids) == {r \in KbRows : r.id \in Range(ids)}

\* " ".join(texts)
RECURSIVE JoinTo(_, _)
JoinTo(texts, n) ==
    IF n = 0 THEN ""
    ELSE IF n = 1 THEN texts[1]
    ELSE JoinTo(texts, n - 1) \o " " \o texts[n]

\* the body of the loop "for entity in entities": the details entry;
\* texts are the lower-case contents in the order of source_texts
VerifyEntity(entity, rows, texts, combined_source) ==
    With(Strip(Lower(entity)), LAMBDA entity_lower :
        LET hits == {i \in DOMAIN rows : Contains(texts[i], entity_lower)}
            found_in == [k \in 1..Cardinality(hits) |-> rows[SortedSeq(hits)[k]].id]
        IN IF hits # {}
           THEN [entity |-> entity, grounded |-> TRUE, found_in |-> Take(found_in, 5)]
           ELSE IF Contains(combined_source, StripIsaPrefix(entity_lower))
           THEN [entity |-> entity, grounded |-> TRUE, found_in |-> <<"fuzzy_match">>]
           ELSE [entity |-> entity, grounded |-> FALSE, found_in |-> << >>])

\* entity_verify(entities, source_paragraph_ids), the rows of the query
\* delivered in the given order
EntityVerify(entities, source_paragraph_ids, rows) ==
    IF entities = << >>
    THEN [score |-> 10000, passed |-> TRUE, details |-> << >>, total_entities |-> 0]
    ELSE IF source_paragraph_ids = << >>
    THEN [score |-> 0, passed |-> FALSE,
          details |-> [i \in DOMAIN entities |->
                          [entity |-> entities[i], grounded |-> FALSE, found_in |-> << >>]],
          total_entities |-> Len(entities)]
    ELSE With([i \in DOMAIN rows |-> Lower(rows[i].content)], LAMBDA texts :
         With(JoinTo(texts, Len(texts)), LAMBDA combined_source :
         With([i \in DOMAIN entities |-> VerifyEntity(entities[i], rows, texts, combined_source)],
              LAMBDA details :
            LET grounded_count == Cardinality({i \in DOMAIN details : details[i].grounded})
            IN [score |-> RoundRatio4(grounded_count, Len(entities)),
                passed |-> 5 * grounded_count >= 4 * Len(entities),
                details |-> details,
                total_entities |-> Len(entities),
                grounded_count |-> grounded_count])))

CallEntityVerify ==
    /\ verify_call = NoCall
    /\ \E entities \in EntityLists, source_paragraph_ids \in SourceIdLists :
          \E rows \in RowOrders(RowsWithIds(source_paragraph_ids)) :
             \E out \in {EntityVerify(entities, source_paragraph_ids, rows)} :
                /\ verify_call' = [tool |-> "entity_verify", entities |-> entities,
                                   source_paragraph_ids |-> source_paragraph_ids]
                /\ verify_result' = out
    /\ UNCHANGED <<hopVars, rrfVars, searchVars, contextVars, cites, guideVars, serviceVars>>

(***************************************************************************)
(* Claims about entity_verify.                                             *)
(***************************************************************************)
EntityReturned == verify_result # NoCall /\ verify_call.tool = "entity_verify"

\* the entity occurs, ignoring case, in the content of a supplied source
\* record, as it is or without a leading "ISA"
OccursInSource(entity, ids) ==
    \E r \in RowsWithIds(ids) :
        \/ Contains(Lower(r.content), Strip(Lower(entity)))
        \/ Contains(Lower(r.content), StripIsaPrefix(Strip(Lower(entity))))

\* C16: score = grounded/total (rounded to 4 decimals), where an entity is
\* grounded iff it occurs as a case-insensitive substring of the content of
\* at least one supplied source record, directly or after a leading "ISA"
\* is stripped; an empty entity list gives score 1.0 and passed; passed iff
\* grounded/total >= 0.80.
C16_EntityGrounding ==
    EntityReturned =>
        LET es == verify_call.entities
            d == verify_result.details
            grounded == {i \in DOMAIN es : OccursInSource(es[i], verify_call.source_paragraph_ids)}
        IN IF es = << >>
           THEN verify_result.score = 10000 /\ verify_result.passed
           ELSE /\ \A i \in DOMAIN es : d[i].grounded <=> i \in grounded
                /\ verify_result.score = RoundRatio4(Cardinality(grounded), Len(es))
                /\ verify_result.passed <=> 5 * Cardinality(grounded) >= 4 * Len(es)

(***************************************************************************)
(* relation_verify  (verify.py 240-345, 462-481)                           *)
(***************************************************************************)
MaxRelations == 2      \* longest relation list enumerated item by item

\* the paragraphs an edge of the model can join: ip_0 (ISA 315), ip_2 (ISA 500)
EdgeNodes == {0, 2}

\* verify._resolve_paragraph_id(identifier) over the ISAParagraph rows given:
\* the id, or NoCall for None
VerifyResolveParagraphId(table, identifier) ==
    IF identifier = "" THEN NoCall
    ELSE IF StartsWith(identifier, "ip_") \/ StartsWith(identifier, "gs_")
    THEN LET rows == {r \in table : r.id = identifier}
         IN IF rows # {} THEN [id |-> (CHOOSE r \in rows : TRUE).id] ELSE NoCall
    ELSE LET clean == Strip(StripIsaPrefix(identifier))
             rows == {r \in table : r.paragraph_ref = clean}
         IN IF rows # {} THEN [id |-> (CHOOSE r \in rows : TRUE).id] ELSE NoCall

\* the resolver over the paragraphs of the knowledge base
ResolveParagraphId(identifier) == VerifyResolveParagraphId(KbRows, identifier)

\* SELECT id FROM <table> WHERE src_id = ? AND dst_id = ?
EdgeRows(table, src_id, dst_id) ==
    {e \in table : NodeId(e.src) = src_id /\ NodeId(e.dst) = dst_id}

\* SELECT 1 FROM ISAParagraph a JOIN ISAParagraph b ON a.isa_number = b.isa_number
\* WHERE a.id = ? AND b.id = ?
SameStandardRows(src_id, dst_id) ==
    {<<a, b>> \in KbRows \X KbRows :
        a.isa_number = b.isa_number /\ a.id = src_id /\ b.id = dst_id}

\* edge_found with the reverse direction not looked up
EdgeFoundForward(cites_rows, hop_edge_rows, src_id, dst_id) ==
    \/ EdgeRows(cites_rows, src_id, dst_id) # {}
    \/ EdgeRows(hop_edge_rows, src_id, dst_id) # {}
    \/ SameStandardRows(src_id, dst_id) # {}

\* edge_found after the four lookups
EdgeFound(cites_rows, hop_edge_rows, src_id, dst_id) ==
    \/ EdgeRows(cites_rows, src_id, dst_id) # {}
    \/ EdgeRows(hop_edge_rows, src_id, dst_id) # {}
    \/ EdgeRows(cites_rows, dst_id, src_id) \cup EdgeRows(hop_edge_rows, dst_id, src_id) # {}
    \/ SameStandardRows(src_id, dst_id) # {}

\* the body of the loop "for rel in relations": the details entry
VerifyRelation(rel, cites_rows, hop_edge_rows) ==
    With(<<ResolveParagraphId(rel.source_paragraph), ResolveParagraphId(rel.target_paragraph)>>,
         LAMBDA ids :
            IF ids[1] = NoCall \/ ids[2] = NoCall
            THEN [source |-> rel.source_paragraph, target |-> rel.target_paragraph,
                  relation_type |-> rel.relation_type, preserved |-> FALSE,
                  reason |-> IF ids[1] = NoCall THEN "source paragraph not found"
                             ELSE "target paragraph not found"]
            ELSE [source |-> rel.source_paragraph, source_id |-> ids[1].id,
                  target |-> rel.target_paragraph, target_id |-> ids[2].id,
                  relation_type |-> rel.relation_type,
                  preserved |-> EdgeFound(cites_rows, hop_edge_rows, ids[1].id, ids[2].id)])

\* relation_verify(relations)
RelationVerify(relations, cites_rows, hop_edge_rows) ==
    IF relations = << >>
    THEN [score |-> 10000, passed |-> TRUE, details |-> << >>, total_relations |-> 0]
    ELSE With([i \in DOMAIN relations |-> VerifyRelation(relations[i], cites_rows, hop_edge_rows)],
              LAMBDA details :
            LET preserved_count == Cardinality({i \in DOMAIN details : details[i].preserved})
            IN [score |-> RoundRatio4(preserved_count, Len(relations)),
                passed |-> 10 * preserved_count >= 7 * Len(relations),
                details |-> details,
                total_relations |-> Len(relations),
                preserved_count |-> preserved_count])

RelationSources == {"ip_0", "ip_2", "ISA 315.2", "ip_99"}
RelationTargets == {"ip_0", "ip_1", "ip_2", ""}

Relations ==
    [source_paragraph : RelationSources, target_paragraph : RelationTargets,
     relation_type : {"cites"}]
      \cup {[source_paragraph |-> "ip_0", target_paragraph |-> "ip_2", relation_type |-> "requires"]}

\* a list of ten relations, the first k within one standard, the others
\* with an unknown source
TenRelations(k) ==
    [i \in 1..10 |-> [source_paragraph |-> IF i <= k THEN "ip_0" ELSE "ip_99",
                      target_paragraph |-> "ip_1", relation_type |-> "cites"]]

RelationLists ==
    UNION {[1..n -> Relations] : n \in 0..MaxRelations} \cup {TenRelations(k) : k \in 6..8}

\* ingestion writes one row of the cites table
InsertCites(src, dst) ==
    /\ verify_call = NoCall
    /\ [src |-> src, dst |-> dst] \notin cites
    /\ cites' = cites \cup {[src |-> src, dst |-> dst]}
    /\ UNCHANGED <<hopVars, rrfVars, searchVars, contextVars, verify_call, verify_result, guideVars, serviceVars>>

\* ingestion writes one row of the hop_edge table before the tool is called
IngestHopEdge(src, dst) ==
    /\ verify_call = NoCall
    /\ InsertHopEdge(src, dst, 9)

CallRelationVerify ==
    /\ verify_call = NoCall
    /\ \E relations \in RelationLists :
          \E out \in {RelationVerify(relations, cites, hop_edge)} :
             /\ verify_call' = [tool |-> "relation_verify", relations |-> relations]
             /\ verify_result' = out
    /\ UNCHANGED <<hopVars, rrfVars, searchVars, contextVars, cites, guideVars, serviceVars>>

RelationNext ==
    \/ \E src \in EdgeNodes : \E dst \in EdgeNodes \ {src} : InsertCites(src, dst)
    \/ \E src \in EdgeNodes : \E dst \in EdgeNodes \ {src} : IngestHopEdge(src, dst)
    \/ CallRelationVerify

SpecRelation == Init /\ [][RelationNext]_vars

(***************************************************************************)
(* Claims about relation_verify.                                           *)
(***************************************************************************)
RelationReturned == verify_result # NoCall /\ verify_call.tool = "relation_verify"

\* the paragraphs an identifier designates: by id for ip_ / gs_ identifiers,
\* else by reference without the ISA prefix
Designated(identifier) ==
    {n \in 0..(MaxKb - 1) :
        /\ identifier # ""
        /\ IF StartsWith(identifier, "ip_") \/ StartsWith(identifier, "gs_")
           THEN KbRow(n).id = identifier
           ELSE KbRow(n).paragraph_ref = Strip(StripIsaPrefix(identifier))}

\* an edge a -> b in the cites or the hop_edge table
Edge(a, b) ==
    \/ [src |-> a, dst |-> b] \in cites
    \/ \E e \in hop_edge : e.src = a /\ e.dst = b

\* C17: a triple is marked preserved iff both endpoints resolve and an edge
\* source->target or target->source exists in cites or hop_edge, or both
\* endpoints have the same standard number; a triple with an unresolved
\* endpoint is never preserved; score = preserved/total (rounded to 4
\* decimals) and passed iff preserved/total >= 0.70.
C17_RelationPreserved ==
    RelationReturned =>
        LET rs == verify_call.relations
            d == verify_result.details
            holds(rel) ==
                \E a \in Designated(rel.source_paragraph), b \in Designated(rel.target_paragraph) :
                    Edge(a, b) \/ Edge(b, a) \/ KbIsaNumber(a) = KbIsaNumber(b)
            preserved == {i \in DOMAIN rs : holds(rs[i])}
        IN /\ DOMAIN d = DOMAIN rs
           /\ \A i \in DOMAIN rs : d[i].preserved <=> i \in preserved
           /\ rs # << >> =>
                 /\ verify_result.score = RoundRatio4(Cardinality(preserved), Len(rs))
                 /\ verify_result.passed <=> 10 * Cardinality(preserved) >= 7 * Len(rs)

\* a relation between paragraphs of different standards that is preserved
\* by the reverse hop_edge row alone, next to one with an unknown source
C17_Witness ==
    /\ RelationReturned
    /\ cites = {}
    /\ hop_edge = {[src |-> 2, dst |-> 0, weight |-> 9]}
    /\ Len(verify_call.relations) = 2
    /\ verify_call.relations[1].source_paragraph = "ip_0"
    /\ verify_call.relations[1].target_paragraph = "ip_2"
    /\ verify_result.details[1].preserved
    /\ verify_call.relations[2].source_paragraph = "ip_99"
    /\ ~verify_result.details[2].preserved
    /\ ~verify_result.passed

(***************************************************************************)
(* contradiction_check  (verify.py 353-454)                                *)
(***************************************************************************)
MaxIds == 3        \* longest paragraph id list enumerated item by item

\* the phrases of the regular expressions \bpositive\b, \bnegative\b
CONTRADICTION_PATTERNS ==
    <<[pos |-> "shall", neg |-> "shall not"],
      [pos |-> "must", neg |-> "must not"],
      [pos |-> "required", neg |-> "not required"],
      [pos |-> "prohibited", neg |-> "permitted"],
      [pos |-> "mandatory", neg |-> "optional"],
      [pos |-> "always", neg |-> "never"]>>

\* the same-topic test left out
SameIsaAny(p1, p2) == TRUE

\* same_isa = p1.get("isa_number") == p2.get("isa_number")
SameIsa(p1, p2) == p1.isa_number = p2.isa_number

\* for each row and pattern: has_pos, has_neg on the lower-case content
PatternHits(rows) ==
    [i \in DOMAIN rows |->
        With(Lower(rows[i].content), LAMBDA c :
            [k \in DOMAIN CONTRADICTION_PATTERNS |->
                [pos |-> SearchPhrase(c, CONTRADICTION_PATTERNS[k].pos),
                 neg |-> SearchPhrase(c, CONTRADICTION_PATTERNS[k].neg)]])]

\* the value of pair_count once the pair (i, j), i < j, of n ids is reached
\* by the two nested loops with no break
PairNumber(i, j, n) == (i - 1) * n - ((i - 1) * i) \div 2 + (j - i)

\* contradiction_check(paragraph_ids), the rows of the query delivered in
\* the given order
ContradictionCheck(paragraph_ids, rows) ==
    IF Len(paragraph_ids) < 2
    THEN [contradiction_count |-> 0, passed |-> TRUE, details |-> << >>,
          total_pairs_checked |-> 0]
    ELSE With(PatternHits(rows), LAMBDA has :
         LET n == Len(rows)
             max_pairs == 100
             pairs == {p \in (1..n) \X (1..n) :
                          p[1] < p[2] /\ PairNumber(p[1], p[2], n) <= max_pairs}
             patterns == Len(CONTRADICTION_PATTERNS)
             flagged == {<<p, k>> \in pairs \X (1..patterns) :
                            /\ \/ has[p[1]][k].pos /\ has[p[2]][k].neg
                               \/ has[p[1]][k].neg /\ has[p[2]][k].pos
                            /\ SameIsa(rows[p[1]], rows[p[2]])}
             key(f) == PairNumber(f[1][1], f[1][2], n) * patterns + f[2]
         IN With(SortedSeq({key(f) : f \in flagged}), LAMBDA order :
               LET entry(q) == CHOOSE f \in flagged : key(f) = q
                   contradictions ==
                       [x \in 1..Len(order) |->
                           [paragraph_1 |-> rows[entry(order[x])[1][1]].id,
                            paragraph_2 |-> rows[entry(order[x])[1][2]].id,
                            pattern |-> entry(order[x])[2]]]
               IN [contradiction_count |-> Len(contradictions),
                   passed |-> Len(contradictions) = 0,
                   details |-> contradictions,
                   total_pairs_checked |-> Cardinality(pairs)]))

CheckedIds == {"ip_0", "ip_1", "ip_4", "ip_5", "ip_99"}

\* the ids of the first n paragraphs of the table
FirstIds(n) == [i \in 1..n |-> NodeId(i - 1)]

ParagraphIdLists ==
    UNION {[1..n -> CheckedIds] : n \in 0..MaxIds}
        \cup {FirstIds(n) : n \in (MaxKb - 2)..MaxKb}

\* the number of the row in the table
KbIndex(row) == CHOOSE n \in 0..(MaxKb - 1) : KbRow(n) = row

\* the row orders tried for the query: every order of up to MaxIds rows,
\* ascending and descending for more
FetchOrders(ids) ==
    With(RowsWithIds(ids), LAMBDA rows :
        IF Cardinality(rows) <= MaxIds THEN RowOrders(rows)
        ELSE With(SortedSeq({KbIndex(r) : r \in rows}), LAMBDA up :
                {[i \in 1..Len(up) |-> KbRow(up[i])],
                 [i \in 1..Len(up) |-> KbRow(up[Len(up) + 1 - i])]}))

CallContradictionCheck ==
    /\ verify_call = NoCall
    /\ \E paragraph_ids \in ParagraphIdLists :
          \E rows \in FetchOrders(paragraph_ids) :
             \E out \in {ContradictionCheck(paragraph_ids, rows)} :
                /\ verify_call' = [tool |-> "contradiction_check",
                                   paragraph_ids |-> paragraph_ids]
                /\ verify_result' = out
    /\ UNCHANGED <<hopVars, rrfVars, searchVars, contextVars, cites, guideVars, serviceVars>>

(***************************************************************************)
(* State machine of the verification tools that read only ISAParagraph.    *)
(***************************************************************************)
VerifyNext ==
    \/ CallEntityVerify
    \/ CallCitationVerify
    \/ CallContradictionCheck

SpecVerify == Init /\ [][VerifyNext]_vars

(***************************************************************************)
(* Claims about contradiction_check.                                       *)
(***************************************************************************)
ContradictionReturned == verify_result # NoCall /\ verify_call.tool = "contradiction_check"

\* the stored paragraph with the given id
Stored(id) == CHOOSE r \in KbRows : r.id = id

\* the record matches the phrase as a whole word or words, ignoring case
Matches(row, phrase) == SearchPhrase(Lower(row.content), phrase)

SeedLookedUp == hop_result # NoCall /\ "paragraph_id" \in DOMAIN hop_call

\* the identifier designates no paragraph: an internal id that no stored
\* paragraph has, or a reference that resolves to nothing
DesignatesNoParagraph(identifier) ==
    IF StartsWith(Strip(identifier), "ip_") \/ StartsWith(Strip(identifier), "gs_")
    THEN \A n \in ISAParagraph : NodeId(n) # Strip(identifier)
    ELSE ResolveSeed(identifier) = NoCall

\* C19: hop_retrieve called with a seed that designates no paragraph (an
\* unknown internal id or an unresolvable reference) returns an empty
\* connected list, total_found = 0 and an error text that contains the hint
\* listing the accepted id and reference formats.
C19_UnknownSeedHint ==
    SeedLookedUp /\ DesignatesNoParagraph(hop_call.paragraph_id) =>
        /\ hop_result.connected = << >>
        /\ hop_result.total_found = 0
        /\ hop_result.error
        /\ Contains(hop_result.message, FormatHint)

(***************************************************************************)
(* guide_to_isa_hop  (graph.py 257-379).  A guide section leads over       *)
(* maps_to to the paragraphs it references, and from each of them          *)
(* hop_retrieve follows hop_edge.  Guide section ids are the integers of   *)
(* GuideIds, paragraph ids those of Nodes, so a hop_path is a sequence of  *)
(* integers.                                                               *)
(***************************************************************************)
GuideSectionArgs == GuideIds \cup {13}     \* guide_section_id: 13 is not stored
MapsToTargets == {0, 1, 7}                 \* maps_to.dst_id: 7 is no paragraph
GuideHopNodes == {0, 1, 2}                 \* endpoints of the edges ingested
GuideMaxHopsArgs == {0, 2}                 \* max_hops argument

\* ingestion of one maps_to row: INSERT OR REPLACE keeps one row per pair
InsertMapsTo(src, dst) ==
    /\ guide_call = NoCall
    /\ [src |-> src, dst |-> dst] \notin maps_to
    /\ maps_to' = maps_to \cup {[src |-> src, dst |-> dst]}
    /\ UNCHANGED <<hopVars, rrfVars, searchVars, contextVars, verifyVars,
                   guide_call, guide_hops, guide_result, serviceVars>>

\* ingestion of one hop_edge row before the guide is asked
IngestGuideHopEdge(src, dst, weight) ==
    /\ guide_call = NoCall
    /\ InsertHopEdge(src, dst, weight)

\* SELECT ... FROM maps_to m JOIN ISAParagraph p ON m.dst_id = p.id
\* WHERE m.src_id = ?
DirectIds(guide_section_id) ==
    {m.dst : m \in {x \in maps_to : x.src = guide_section_id /\ x.dst \in ISAParagraph}}

\* the query has no ORDER BY: the rows come in any order
DirectRowOrders(ids) ==
    {s \in [1..Cardinality(ids) -> ids] : Range(s) = ids}

\* direct_refs.append({... "hop_depth": 0, "hop_path": [guide_section_id]})
DirectRef(guide_section_id, id) ==
    [id |-> id, hop_depth |-> 0, hop_path |-> <<guide_section_id>>]

\* the connected lists hop_retrieve can return for a stored seed
HopRetrieveConnected(edges, seed, max_hops, decay, min_score, max_results) ==
    With(Joined(Hops(BaseRows(edges, seed), edges, max_hops, decay, min_score), seed),
         LAMBDA joined :
            { With(Take(SortByScoreDesc(sqlRows), max_results),
                   LAMBDA limited : [i \in 1..Len(limited) |-> Connected(limited[i])]) :
                sqlRows \in DistinctOn(SortedSeq({h.dst : h \in joined}), joined) })

\* what one hop_retrieve(ref["id"], ...) call can return: its connected
\* list, or the error dict of a query that raised
GuideHopOutcomes(edges, ref, call) ==
    { [ref |-> ref, error |-> FALSE, connected |-> c] :
        c \in HopRetrieveConnected(edges, ref, call.max_hops, call.decay,
                                   call.min_score, call.max_results) }
    \cup { [ref |-> ref, error |-> TRUE, connected |-> << >>] }

\* the hop_retrieve returns of the loop over direct_refs, in call order
RECURSIVE GuideHopCalls(_, _, _)
GuideHopCalls(edges, refs, call) ==
    IF refs = << >> THEN { << >> }
    ELSE { <<x[1]>> \o x[2] :
             x \in GuideHopOutcomes(edges, Head(refs), call)
                   \X GuideHopCalls(edges, Tail(refs), call) }

\* the body of the inner loop: an id not seen before is recorded, its path
\* and depth are adjusted and the entry is appended
AddConnected(acc, guide_section_id, ref, conn) ==
    IF conn.id \in acc.seen_ids THEN acc
    ELSE [seen_ids |-> acc.seen_ids \cup {conn.id},
          further_connected |->
              Append(acc.further_connected,
                     [conn EXCEPT !.hop_path = <<guide_section_id, ref>> \o @,
                                  !.hop_depth = @ + 1])]

\* for conn in hop_result.get("connected", []): the first j entries
RECURSIVE ConnLoop(_, _, _, _, _)
ConnLoop(acc, guide_section_id, ref, conns, j) ==
    IF j = 0 THEN acc
    ELSE AddConnected(ConnLoop(acc, guide_section_id, ref, conns, j - 1),
                      guide_section_id, ref, conns[j])

\* for ref in direct_refs: the first k references
RECURSIVE RefLoop(_, _, _, _)
RefLoop(acc, guide_section_id, calls, k) ==
    IF k = 0 THEN acc
    ELSE ConnLoop(RefLoop(acc, guide_section_id, calls, k - 1), guide_section_id,
                  calls[k].ref, calls[k].connected, Len(calls[k].connected))

\* further_connected.sort(key=lambda r: -float(r.get("hop_score", 0)))
PlaceByHopScore(rows, i) ==
    Cardinality({j \in DOMAIN rows :
        \/ rows[j].hop_score > rows[i].hop_score
        \/ rows[j].hop_score = rows[i].hop_score /\ j < i}) + 1
SortByHopScoreDesc(rows) ==
    With(rows, LAMBDA r :
        [p \in DOMAIN r |-> r[CHOOSE i \in DOMAIN r : PlaceByHopScore(r, i) = p]])

\* the dict returned when the guide section is not stored
GuideNotFound(guide_section_id) ==
    [seed_id |-> guide_section_id, guide_section |-> FALSE,
     direct_references |-> << >>, connected |-> << >>, total_found |-> 0,
     error |-> TRUE]

\* steps 2 and 3 and the return, given the rows of the maps_to query and
\* the returns of the hop_retrieve calls
GuideFound(call, direct_ids, calls) ==
    LET direct_refs == [i \in DOMAIN direct_ids |->
                           DirectRef(call.guide_section_id, direct_ids[i])]
        looped == RefLoop([seen_ids |-> Range(direct_ids), further_connected |-> << >>],
                          call.guide_section_id, calls, Len(calls))
        further_connected == Take(SortByHopScoreDesc(looped.further_connected),
                                  call.max_results)
    IN [seed_id |-> call.guide_section_id, guide_section |-> TRUE,
        direct_references |-> direct_refs, connected |-> further_connected,
        total_found |-> Len(direct_refs) + Len(further_connected),
        error |-> FALSE]

\* guide_to_isa_hop(guide_section_id, max_hops, decay, min_score,
\* max_results); query_ok is whether the maps_to query succeeds
CallGuideToIsaHop ==
    /\ guide_call = NoCall
    /\ \E guide_section_id \in GuideSectionArgs, max_hops \in GuideMaxHopsArgs,
          decay \in Decays, min_score \in MinScores,
          max_results \in MaxResultsArgs, query_ok \in BOOLEAN :
          \E call \in {[guide_section_id |-> guide_section_id, max_hops |-> max_hops,
                        decay |-> decay, min_score |-> min_score,
                        max_results |-> max_results]} :
             /\ guide_call' = call
             /\ IF guide_section_id \notin GuideIds
                THEN /\ query_ok
                     /\ guide_hops' = [calls |-> << >>]
                     /\ guide_result' = GuideNotFound(guide_section_id)
                ELSE \E direct_ids \in
                        (IF query_ok THEN DirectRowOrders(DirectIds(guide_section_id))
                         ELSE { << >> }) :
                        \E calls \in
                           (IF max_hops > 0 THEN GuideHopCalls(hop_edge, direct_ids, call)
                            ELSE { << >> }) :
                           /\ guide_hops' = [calls |-> calls]
                           /\ guide_result' = GuideFound(call, direct_ids, calls)
    /\ UNCHANGED <<hopVars, rrfVars, searchVars, contextVars, verifyVars, maps_to, serviceVars>>

GuideHopNext ==
    \/ \E src \in GuideIds : \E dst \in MapsToTargets : InsertMapsTo(src, dst)
    \/ \E src \in GuideHopNodes : \E dst \in GuideHopNodes \ {src} :
          IngestGuideHopEdge(src, dst, 9)
    \/ CallGuideToIsaHop

SpecGuideHop == Init /\ [][GuideHopNext]_vars

(***************************************************************************)
(* Claims about guide_to_isa_hop.                                          *)
(***************************************************************************)
\* guide_to_isa_hop has returned for a stored guide section
GuideReturned == guide_result # NoCall /\ ~guide_result.error

\* the hop_retrieve call whose return put the paragraph id into connected:
\* the first one, in call order, that reported it
FoundBy(id) ==
    CHOOSE k \in DOMAIN guide_hops.calls :
        /\ id \in {c.id : c \in Range(guide_hops.calls[k].connected)}
        /\ \A j \in 1..(k - 1) :
              id \notin {c.id : c \in Range(guide_hops.calls[j].connected)}

\* the entry hop_retrieve reported for the id in that call
Reported(id) ==
    CHOOSE c \in Range(guide_hops.calls[FoundBy(id)].connected) : c.id = id

\* C20: every entry of connected has the hop_depth hop_retrieve reported
\* plus one and the hop_path hop_retrieve reported with the guide section
\* id put in front of it; every direct reference has hop_depth 0 and a
\* hop_path that holds the guide section id only
C20_GuidePathAndDepth ==
    GuideReturned =>
        /\ \A i \in DOMAIN guide_result.direct_references :
              /\ guide_result.direct_references[i].hop_depth = 0
              /\ guide_result.direct_references[i].hop_path = <<guide_call.guide_section_id>>
        /\ \A i \in DOMAIN guide_result.connected :
              LET entry == guide_result.connected[i]
                  reported == Reported(entry.id)
              IN /\ entry.hop_depth = reported.hop_depth + 1
                 /\ entry.hop_path = <<guide_call.guide_section_id>> \o reported.hop_path

\* the node ids guide_to_isa_hop reported, direct references first
ReportedIds ==
    [i \in DOMAIN guide_result.direct_references |-> guide_result.direct_references[i].id]
    \o [i \in DOMAIN guide_result.connected |-> guide_result.connected[i].id]

\* the part of C21 about duplicates: no node id is reported twice across
\* direct_references and connected together
GuideIdsReportedOnce ==
    GuideReturned =>
        \A i, j \in DOMAIN ReportedIds : ReportedIds[i] = ReportedIds[j] => i = j

\* C21: guide_to_isa_hop reports every node id at most once across
\* direct_references and connected, and an entry of connected carries the
\* highest score any hop_retrieve call from a direct reference reported for
\* its node
C21_DedupKeepsBestPath ==
    GuideReturned =>
        /\ \A i, j \in DOMAIN ReportedIds : ReportedIds[i] = ReportedIds[j] => i = j
        /\ \A i \in DOMAIN guide_result.connected :
              \A k \in DOMAIN guide_hops.calls :
                 \A c \in Range(guide_hops.calls[k].connected) :
                    c.id = guide_result.connected[i].id
                        => guide_result.connected[i].hop_score >= c.hop_score

(***************************************************************************)
(* C22.  The score of an id is the sum _rrf_fuse sorts by; the rrf_score   *)
(* it reports is that sum rounded to six decimals.                         *)
(***************************************************************************)
\* both input lists hold distinct ids, at most k + 1 of them each
RrfListsWithinK ==
    /\ NoDuplicates([i \in DOMAIN rrf_call.keyword_results |-> rrf_call.keyword_results[i].id])
    /\ NoDuplicates([i \in DOMAIN rrf_call.vector_results |-> rrf_call.vector_results[i].id])
    /\ Len(rrf_call.keyword_results) <= rrf_call.k + 1
    /\ Len(rrf_call.vector_results) <= rrf_call.k + 1

InBothLists(id) ==
    id \in ListIds(rrf_call.keyword_results) \cap ListIds(rrf_call.vector_results)

InOneList(id) ==
    /\ id \in ListIds(rrf_call.keyword_results) \cup ListIds(rrf_call.vector_results)
    /\ ~InBothLists(id)

\* C22: for two lists of at most k + 1 distinct items each, every item that
\* appears in both lists has a strictly higher fused score than, and is
\* ranked above, every item that appears in only one list
C22_BothListsOutrank ==
    (RrfReturned /\ RrfListsWithinK) =>
        \A i, j \in DOMAIN rrf_out.fused :
            (InBothLists(rrf_out.fused[i].id) /\ InOneList(rrf_out.fused[j].id))
                => /\ rrf_out.fused[i].score > rrf_out.fused[j].score
                   /\ i < j

\* the boundary case: lists of k + 1 items, an item at the last rank of
\* both lists and an item at rank 0 of one list only
C22_Witness ==
    /\ RrfReturned /\ RrfListsWithinK
    /\ Len(rrf_call.keyword_results) = rrf_call.k + 1
    /\ Len(rrf_call.vector_results) = rrf_call.k + 1
    /\ InBothLists(rrf_call.keyword_results[rrf_call.k + 1].id)
    /\ rrf_call.vector_results[rrf_call.k + 1].id = rrf_call.keyword_results[rrf_call.k + 1].id
    /\ InOneList(rrf_call.keyword_results[1].id)
    /\ InOneList(rrf_call.vector_results[1].id)

(***************************************************************************)
(* expand_query  (query_expand.py 14-67).                                  *)
(***************************************************************************)
MaxWords == 2          \* words in a query

\* ISA_ACRONYMS
ISA_ACRONYMS ==
    [acronym \in {"RA", "ToC", "RMM", "ROMM", "AM", "AP", "TCWG", "KAM", "LCE", "GCM",
                  "SA", "IT", "ITGC", "PM", "FS", "ISA", "IFAC", "IAASB", "PCAOB"} |->
        CASE acronym = "RA" -> "risk assessment"
          [] acronym = "ToC" -> "tests of controls"
          [] acronym = "RMM" -> "risk of material misstatement"
          [] acronym = "ROMM" -> "risk of material misstatement"
          [] acronym = "AM" -> "application material"
          [] acronym = "AP" -> "audit procedures"
          [] acronym = "TCWG" -> "those charged with governance"
          [] acronym = "KAM" -> "key audit matters"
          [] acronym = "LCE" -> "less complex entities"
          [] acronym = "GCM" -> "going concern matters"
          [] acronym = "SA" -> "substantive analytical procedures"
          [] acronym = "IT" -> "information technology"
          [] acronym = "ITGC" -> "IT general controls"
          [] acronym = "PM" -> "performance materiality"
          [] acronym = "FS" -> "financial statements"
          [] acronym = "ISA" -> "International Standard on Auditing"
          [] acronym = "IFAC" -> "International Federation of Accountants"
          [] acronym = "IAASB" -> "International Auditing and Assurance Standards Board"
          [] acronym = "PCAOB" -> "Public Company Accounting Oversight Board"]

\* [A-Za-z]
LetterChars == Chars(UpperCase) \cup Chars(LowerCase)

UpperChar(c) ==
    IF c \in Chars(LowerCase)
    THEN Ch(UpperCase, CHOOSE i \in 1..Len(LowerCase) : Ch(LowerCase, i) = c)
    ELSE c

\* str.upper() of the first n characters
RECURSIVE UpperTo(_, _)
UpperTo(s, n) == IF n = 0 THEN "" ELSE UpperTo(s, n - 1) \o UpperChar(Ch(s, n))

\* str.upper()
Upper(s) == UpperTo(s, Len(s))

\* re.findall(r'\b[A-Za-z]+\b', s): the runs of letters that have no word
\* character (letter, digit or underscore) next to them, from left to right
FindLetterTokens(s) ==
    LET letter == [i \in 1..Len(s) |-> Ch(s, i) \in LetterChars]
        starts == {i \in 1..Len(s) : letter[i] /\ (i = 1 \/ Ch(s, i - 1) \notin WordChars)}
        ends(i) == {j \in i..Len(s) :
                      /\ \A k \in i..j : letter[k]
                      /\ (j = Len(s) \/ Ch(s, j + 1) \notin WordChars)}
        matched == {i \in starts : ends(i) # {}}
        order == SortedSeq(matched)
    IN [k \in 1..Len(order) |->
           SubSeq(s, order[k], CHOOSE j \in ends(order[k]) : \A e \in ends(order[k]) : e <= j)]

\* the dictionary key the loop body looks a token up with: the token, else
\* its upper-case form, else none
AcronymKey(token) ==
    IF token \in DOMAIN ISA_ACRONYMS THEN <<token>>
    ELSE IF Upper(token) \in DOMAIN ISA_ACRONYMS THEN <<Upper(token)>>
    ELSE << >>

\* the body of the loop "for token in tokens": the expansions it appends
TokenExpansion(token, query_lower) ==
    With(AcronymKey(token), LAMBDA key :
        IF key = << >> THEN << >>
        ELSE IF Contains(query_lower, Lower(ISA_ACRONYMS[key[1]])) THEN << >>
        ELSE <<ISA_ACRONYMS[key[1]]>>)

\* the expansions list after the first n tokens
RECURSIVE Expansions(_, _, _)
Expansions(tokens, n, query_lower) ==
    IF n = 0 THEN << >>
    ELSE Expansions(tokens, n - 1, query_lower) \o TokenExpansion(tokens[n], query_lower)

\* expand_query(query)
ExpandQuery(query) ==
    With(FindLetterTokens(query), LAMBDA tokens :
    With(Expansions(tokens, Len(tokens), Lower(query)), LAMBDA expansions :
        IF expansions # << >>
        THEN query \o " " \o JoinTo(expansions, Len(expansions))
        ELSE query))

\* the words queries are made of
QueryWords ==
    {"RA", "ra", "ToC", "toc", "RMM", "ROMM", "ITGC", "audit", "RA1", "Risk Assessment"}

\* the queries: up to MaxWords words with one space between them
QueryWordLists == UNION {[1..n -> QueryWords] : n \in 0..MaxWords}
Queries == {JoinTo(words, Len(words)) : words \in QueryWordLists}

\* one call expand_query(query)
CallExpandQuery ==
    /\ expand_call = NoCall
    /\ \E query \in Queries :
          /\ expand_call' = [query |-> query]
          /\ expand_result' = [text |-> ExpandQuery(query)]
    /\ UNCHANGED <<hopVars, rrfVars, searchVars, contextVars, verifyVars, guideVars,
                   expand_again, rerankVars, dbVars, resolveVars>>

\* expand_query applied to what the first call returned
CallExpandAgain ==
    /\ expand_result # NoCall
    /\ expand_again = NoCall
    /\ expand_again' = [text |-> ExpandQuery(expand_result.text)]
    /\ UNCHANGED <<hopVars, rrfVars, searchVars, contextVars, verifyVars, guideVars,
                   expand_call, expand_result, rerankVars, dbVars, resolveVars>>

ExpandNext == CallExpandQuery \/ CallExpandAgain

SpecExpand == Init /\ [][ExpandNext]_vars

(***************************************************************************)
(* Claims about expand_query.                                              *)
(***************************************************************************)
ExpandReturned == expand_result # NoCall

\* the acronyms of the dictionary a token equals when case is ignored
AcronymsIgnoringCase(token) ==
    {acronym \in DOMAIN ISA_ACRONYMS : Lower(acronym) = Lower(token)}

\* the full form to append for a token: that of the acronym it equals when
\* case is ignored, unless it occurs in the query already
FullFormFor(token, query) ==
    IF AcronymsIgnoringCase(token) = {} THEN << >>
    ELSE LET full == ISA_ACRONYMS[CHOOSE acronym \in AcronymsIgnoringCase(token) : TRUE]
         IN IF Contains(Lower(query), Lower(full)) THEN << >> ELSE <<full>>

RECURSIVE FullForms(_, _, _)
FullForms(tokens, n, query) ==
    IF n = 0 THEN << >>
    ELSE FullForms(tokens, n - 1, query) \o FullFormFor(tokens[n], query)

\* C23: expand_query returns the query followed by the full form of every
\* token that equals a dictionary acronym when case is ignored, unless the
\* full form occurs in the query already; a query without such a token is
\* returned unchanged and the query is always a prefix of the result
C23_ExpandsEveryAcronym ==
    ExpandReturned =>
        LET query == expand_call.query
            tokens == FindLetterTokens(query)
            full == FullForms(tokens, Len(tokens), query)
        IN /\ StartsWith(expand_result.text, query)
           /\ expand_result.text =
                 IF full = << >> THEN query ELSE query \o " " \o JoinTo(full, Len(full))

\* str.count(t) for a phrase t that cannot overlap itself
CountOccurrences(s, t) ==
    Cardinality({i \in 1..(Len(s) - Len(t) + 1) : SubSeq(s, i, i + Len(t) - 1) = t})

\* the full forms of the acronyms expand_query matched in the query that do
\* not occur in the query yet
MissingFullForms(query) ==
    LET tokens == FindLetterTokens(query)
    IN {ISA_ACRONYMS[AcronymKey(tokens[i])[1]] :
          i \in {j \in DOMAIN tokens :
                   /\ AcronymKey(tokens[j]) # << >>
                   /\ ~Contains(Lower(query),
                                Lower(ISA_ACRONYMS[AcronymKey(tokens[j])[1]]))}}

ExpandedTwice == expand_result # NoCall /\ expand_again # NoCall

\* the second half of C24 alone: expanding the result again adds no further
\* copy of a full form
ReExpansionAddsNoCopy ==
    ExpandedTwice =>
        \A full \in MissingFullForms(expand_call.query) :
            CountOccurrences(Lower(expand_again.text), Lower(full))
                = CountOccurrences(Lower(expand_result.text), Lower(full))

\* C24: when the full form of a matched acronym does not occur in the query,
\* the result of expand_query contains it exactly once, and expanding the
\* result again adds no further copy of it
C24_FullFormExactlyOnce ==
    ExpandedTwice =>
        \A full \in MissingFullForms(expand_call.query) :
            /\ CountOccurrences(Lower(expand_result.text), Lower(full)) = 1
            /\ CountOccurrences(Lower(expand_again.text), Lower(full))
                  = CountOccurrences(Lower(expand_result.text), Lower(full))

(***************************************************************************)
(* rerank_results  (rerank.py 18-81).  The environment of a call is        *)
(* whether FlashRank can be imported and initialised, and what its rerank  *)
(* call does: it raises, or it returns every passage with a score.  A raw  *)
(* score is in units of 1/10000000, a rerank_score in units of 1/1000000.  *)
(***************************************************************************)
MaxRerank == 3         \* longest results list

RerankIds == {"a", "b", "c"}
RawScores == {9000004, 9000001, 2500006}      \* 0.9000004, 0.9000001, 0.2500006
TopKArgs == {0, 2, 10}

\* the results list for a list of ids: the content tells the items apart
RerankInput(ids) == [i \in DOMAIN ids |-> [id |-> ids[i], content |-> "Result " \o Str(i)]]

RerankInputs == {RerankInput(ids) : ids \in UNION {[1..n -> RerankIds] : n \in 0..MaxRerank}}

\* round(float(score), 6); no raw score of the model lies half-way
RoundScore6(raw) == (raw + 5) \div 10

\* score_map after the loop over reranked: an id that several passages
\* carry keeps the score of the one that comes last in reranked
ScoreMaps(results, raw) ==
    {score_map \in [{results[i].id : i \in DOMAIN results} -> RawScores] :
        \A id \in DOMAIN score_map :
            \E i \in DOMAIN results : results[i].id = id /\ raw[i] = score_map[id]}

\* the loop "for r in results": r["rerank_score"] = round(..., 6)
WithRerankScores(results, score_map) ==
    [i \in DOMAIN results |->
        IF results[i].id \in DOMAIN score_map
        THEN [id |-> results[i].id, content |-> results[i].content,
              rerank_score |-> RoundScore6(score_map[results[i].id])]
        ELSE results[i]]

\* the sort key -x.get("rerank_score", 0)
RerankKey(r) == IF "rerank_score" \in DOMAIN r THEN r.rerank_score ELSE 0

\* the list left as it is
RerankKeepOrder(rows) == rows

\* results.sort(key=lambda x: -x.get("rerank_score", 0)), a stable sort
PlaceByRerank(rows, i) ==
    Cardinality({j \in DOMAIN rows :
        \/ RerankKey(rows[j]) > RerankKey(rows[i])
        \/ RerankKey(rows[j]) = RerankKey(rows[i]) /\ j < i}) + 1
RerankSort(rows) ==
    [p \in DOMAIN rows |-> rows[CHOOSE i \in DOMAIN rows : PlaceByRerank(rows, i) = p]]

\* _init_reranker(): _reranker_available after it, for a process in which
\* the reranker was not initialised before
InitReranker(installed) == installed

\* rerank_results(query, results, top_k) in the given environment
RerankResults(results, top_k, installed, rerank_ok, score_map) ==
    IF ~InitReranker(installed) \/ results = << >>
    THEN Take(results, top_k)
    ELSE IF ~rerank_ok
    THEN Take(results, top_k)
    ELSE With(WithRerankScores(results, score_map), LAMBDA scored :
            Take(RerankSort(scored), top_k))

\* one call of rerank_results
CallRerankResults ==
    /\ rerank_call = NoCall
    /\ \E results \in RerankInputs, top_k \in TopKArgs,
          installed \in BOOLEAN, rerank_ok \in BOOLEAN :
          \E raw \in [DOMAIN results -> RawScores] :
             \E score_map \in ScoreMaps(results, raw) :
                /\ rerank_call' = [results |-> results, top_k |-> top_k,
                                   installed |-> installed, rerank_ok |-> rerank_ok]
                /\ rerank_result' =
                      [results |-> RerankResults(results, top_k, installed, rerank_ok, score_map)]
    /\ UNCHANGED <<hopVars, rrfVars, searchVars, contextVars, verifyVars, guideVars,
                   expandVars, dbVars, resolveVars>>

RerankNext == CallRerankResults

SpecRerank == Init /\ [][RerankNext]_vars

(***************************************************************************)
(* Claims about rerank_results.                                            *)
(***************************************************************************)
RerankReturned == rerank_result # NoCall

\* the reranker ran and returned scores
RerankSucceeded ==
    /\ rerank_call.installed
    /\ rerank_call.rerank_ok
    /\ rerank_call.results # << >>

\* the input item a returned item is, without the field the call adds
InputItem(r) == [id |-> r.id, content |-> r.content]

Min(a, b) == IF a <= b THEN a ELSE b

\* C25: when reranking is unavailable or fails, rerank_results returns the
\* first top_k input results in their original order; when it succeeds it
\* returns min(top_k, n) of the n input results in descending order of
\* rerank_score; every returned item is one of the input items, and no
\* input item is returned twice
C25_RerankFallback ==
    RerankReturned =>
        LET input == rerank_call.results
            output == rerank_result.results
        IN /\ \A i \in DOMAIN output : InputItem(output[i]) \in Range(input)
           /\ \A i, j \in DOMAIN output : InputItem(output[i]) = InputItem(output[j]) => i = j
           /\ Len(output) = Min(rerank_call.top_k, Len(input))
           /\ IF RerankSucceeded
              THEN /\ \A i \in DOMAIN output : "rerank_score" \in DOMAIN output[i]
                   /\ \A i, j \in DOMAIN output :
                         i < j => output[i].rerank_score >= output[j].rerank_score
              ELSE output = Take(input, rerank_call.top_k)

\* a successful call that had to reorder and to truncate
C25_Witness ==
    /\ RerankReturned /\ RerankSucceeded
    /\ Len(rerank_call.results) > rerank_call.top_k
    /\ Len(rerank_result.results) = 2
    /\ InputItem(rerank_result.results[1]) # rerank_call.results[1]
    /\ rerank_result.results[1].rerank_score > rerank_result.results[2].rerank_score

\* a call whose reranker raised, with more results than top_k
C25_FallbackReached ==
    /\ RerankReturned
    /\ rerank_call.installed /\ ~rerank_call.rerank_ok
    /\ Len(rerank_call.results) > rerank_call.top_k
    /\ rerank_result.results = Take(rerank_call.results, 2)

(***************************************************************************)
(* The store connection  (db.py 34-159).  Threads call get_connection,     *)
(* execute_query and close_connection; a step of a thread is a stretch of  *)
(* code between two points at which another thread can run.  A handle is   *)
(* the number of the duckdb.connect call that returned it.                 *)
(***************************************************************************)
MaxOpens == 2          \* duckdb.connect calls that succeed

DbOps == {"get_connection", "execute_query", "close_connection"}

\* threading.Lock: it can be acquired when no thread holds it
LockNotExclusive == TRUE

LockFree == db_lock = 0

\* the handle is a connection that was opened and not closed
HandleOpen(h) == IF h = 0 THEN FALSE ELSE db_handles[h] = "open"

\* what the store connection functions leave alone
nonDbVars ==
    <<hopVars, rrfVars, searchVars, contextVars, verifyVars, guideVars,
      expandVars, rerankVars, resolveVars>>

\* a thread is asked to run one of the functions
StartCall(t, op) ==
    /\ db_pc[t] = "idle"
    /\ db_op' = [db_op EXCEPT ![t] = op]
    /\ db_pc' = [db_pc EXCEPT ![t] = IF op = "close_connection" THEN "cc_lock" ELSE "gc_lock"]
    /\ db_conn' = [db_conn EXCEPT ![t] = 0]
    /\ UNCHANGED <<db_lock, db_connection, db_handles, db_received>>
    /\ UNCHANGED nonDbVars

\* with _lock: entering the block
AcquireLock(t) ==
    /\ db_pc[t] \in {"gc_lock", "cc_lock"}
    /\ LockFree
    /\ db_lock' = t
    /\ db_pc' = [db_pc EXCEPT ![t] = IF db_pc[t] = "gc_lock" THEN "gc_check" ELSE "cc_check"]
    /\ UNCHANGED <<db_connection, db_handles, db_op, db_conn, db_received>>
    /\ UNCHANGED nonDbVars

\* get_connection: if _connection is not None ... if not db_path.exists():
\* raise FileNotFoundError (the exception leaves the with block)
GetConnectionCheck(t) ==
    /\ db_pc[t] = "gc_check"
    /\ \/ /\ db_connection # 0
          /\ db_pc' = [db_pc EXCEPT ![t] = "gc_return"]
          /\ UNCHANGED <<db_lock, db_op>>
       \/ /\ db_connection = 0
          /\ db_pc' = [db_pc EXCEPT ![t] = "gc_connect"]
          /\ UNCHANGED <<db_lock, db_op>>
       \/ /\ db_connection = 0
          /\ db_lock' = 0
          /\ db_pc' = [db_pc EXCEPT ![t] = "idle"]
          /\ db_op' = [db_op EXCEPT ![t] = "none"]
    /\ UNCHANGED <<db_connection, db_handles, db_conn, db_received>>
    /\ UNCHANGED nonDbVars

\* get_connection: _connection = duckdb.connect(...), LOAD fts inside its
\* own try; or duckdb.connect raises and the exception leaves the with block
GetConnectionConnect(t) ==
    /\ db_pc[t] = "gc_connect"
    /\ \/ /\ Len(db_handles) < MaxOpens
          /\ db_handles' = Append(db_handles, "open")
          /\ db_connection' = Len(db_handles) + 1
          /\ db_pc' = [db_pc EXCEPT ![t] = "gc_return"]
          /\ UNCHANGED <<db_lock, db_op>>
       \/ /\ db_lock' = 0
          /\ db_pc' = [db_pc EXCEPT ![t] = "idle"]
          /\ db_op' = [db_op EXCEPT ![t] = "none"]
          /\ UNCHANGED <<db_connection, db_handles>>
    /\ UNCHANGED <<db_conn, db_received>>
    /\ UNCHANGED nonDbVars

\* get_connection: return _connection, leaving the with block; in
\* execute_query the handle becomes conn
GetConnectionReturn(t) ==
    /\ db_pc[t] = "gc_return"
    /\ db_lock' = 0
    /\ db_received' = [db_received EXCEPT ![t] = db_connection]
    /\ IF db_op[t] = "execute_query"
       THEN /\ db_conn' = [db_conn EXCEPT ![t] = db_connection]
            /\ db_pc' = [db_pc EXCEPT ![t] = "eq_execute"]
            /\ UNCHANGED db_op
       ELSE /\ db_pc' = [db_pc EXCEPT ![t] = "idle"]
            /\ db_op' = [db_op EXCEPT ![t] = "none"]
            /\ UNCHANGED db_conn
    /\ UNCHANGED <<db_connection, db_handles>>
    /\ UNCHANGED nonDbVars

\* execute_query: conn.execute(sql, params); it raises on a connection that
\* is closed, and can raise on the query, and the exception is re-raised
ExecuteQueryExecute(t) ==
    /\ db_pc[t] = "eq_execute"
    /\ \/ /\ HandleOpen(db_conn[t])
          /\ db_pc' = [db_pc EXCEPT ![t] = "eq_fetch"]
          /\ UNCHANGED <<db_op, db_conn>>
       \/ /\ db_pc' = [db_pc EXCEPT ![t] = "idle"]
          /\ db_op' = [db_op EXCEPT ![t] = "none"]
          /\ db_conn' = [db_conn EXCEPT ![t] = 0]
    /\ UNCHANGED <<db_lock, db_connection, db_handles, db_received>>
    /\ UNCHANGED nonDbVars

\* execute_query: result.fetchall() and the return of the rows, or the
\* exception of a fetch on a connection closed in between
ExecuteQueryFetch(t) ==
    /\ db_pc[t] = "eq_fetch"
    /\ db_pc' = [db_pc EXCEPT ![t] = "idle"]
    /\ db_op' = [db_op EXCEPT ![t] = "none"]
    /\ db_conn' = [db_conn EXCEPT ![t] = 0]
    /\ UNCHANGED <<db_lock, db_connection, db_handles, db_received>>
    /\ UNCHANGED nonDbVars

\* close_connection: if _connection is not None
CloseConnectionCheck(t) ==
    /\ db_pc[t] = "cc_check"
    /\ db_pc' = [db_pc EXCEPT ![t] = IF db_connection # 0 THEN "cc_close" ELSE "cc_release"]
    /\ UNCHANGED <<db_lock, db_connection, db_handles, db_op, db_conn, db_received>>
    /\ UNCHANGED nonDbVars

\* close_connection: try: _connection.close() ... finally: _connection =
\* None; a close that raises leaves the handle closed or open
CloseConnectionClose(t) ==
    /\ db_pc[t] = "cc_close"
    /\ \E closed \in BOOLEAN :
          db_handles' = IF closed /\ db_connection # 0
                        THEN [db_handles EXCEPT ![db_connection] = "closed"]
                        ELSE db_handles
    /\ db_connection' = 0
    /\ db_received' = [th \in Threads |-> 0]
    /\ db_pc' = [db_pc EXCEPT ![t] = "cc_release"]
    /\ UNCHANGED <<db_lock, db_op, db_conn>>
    /\ UNCHANGED nonDbVars

\* close_connection: leaving the with block and returning
CloseConnectionReturn(t) ==
    /\ db_pc[t] = "cc_release"
    /\ db_lock' = 0
    /\ db_pc' = [db_pc EXCEPT ![t] = "idle"]
    /\ db_op' = [db_op EXCEPT ![t] = "none"]
    /\ UNCHANGED <<db_connection, db_handles, db_conn, db_received>>
    /\ UNCHANGED nonDbVars

DbStep(t) ==
    \/ \E op \in DbOps : StartCall(t, op)
    \/ AcquireLock(t)
    \/ GetConnectionCheck(t)
    \/ GetConnectionConnect(t)
    \/ GetConnectionReturn(t)
    \/ ExecuteQueryExecute(t)
    \/ ExecuteQueryFetch(t)
    \/ CloseConnectionCheck(t)
    \/ CloseConnectionClose(t)
    \/ CloseConnectionReturn(t)

DbNext == \E t \in Threads : DbStep(t)

SpecDb == Init /\ [][DbNext]_vars

(***************************************************************************)
(* Claims about the store connection.                                      *)
(***************************************************************************)
\* every thread that got a handle since the connection was last released
\* got the handle that is held
SameHandle == \A t \in Threads : db_received[t] # 0 => db_received[t] = db_connection

\* a close_connection call that is about to return leaves no connection held
ClosedLeavesNone == \A t \in Threads : db_pc[t] = "cc_release" => db_connection = 0

\* duckdb.connect returns a handle only while no connection is held
OpenedWhileNoneHeld == Len(db_handles') > Len(db_handles) => db_connection = 0

\* C26: for any interleaving of get_connection and close_connection calls
\* the database is opened at most once while a connection is held, every
\* caller receives the handle that is held, and close_connection leaves no
\* connection held, also when closing the handle fails
C26_ConnectionSingleton ==
    /\ [](SameHandle /\ ClosedLeavesNone)
    /\ [][OpenedWhileNoneHeld]_vars

\* both threads hold the handle of the second open, after a close
C26_Witness ==
    /\ Len(db_handles) = 2
    /\ db_received[1] = 2
    /\ db_received[2] = 2
    /\ db_connection = 2

\* C28: the handle a query got from get_connection stays open until the
\* query has returned its rows
C28_QueryOnOpenConnection ==
    \A t \in Threads :
        db_pc[t] \in {"eq_execute", "eq_fetch"} => HandleOpen(db_conn[t])

(***************************************************************************)
(* C27: the budgets of format_context.                                     *)
(***************************************************************************)
\* the included entries charged to one budget: all of them in flat mode,
\* those of one role in role-grouped mode
ChargedTo(role) ==
    IF ctx_call.group_by_role
    THEN SelectSeq(ctx_result.xml.results, LAMBDA e : e.role = role)
    ELSE ctx_result.xml.results

\* the budget: the flat budget, or the role's share of the available
\* characters
BudgetOf(role) ==
    IF ctx_call.group_by_role
    THEN IntOf((ctx_call.max_tokens * CHARS_PER_TOKEN - 300) * ROLE_BUDGET_SPLIT[role], 100)
    ELSE ctx_call.max_tokens * CHARS_PER_TOKEN - 200

\* the sum of content length + 200 over the first n entries
RECURSIVE CostOf(_, _)
CostOf(entries, n) ==
    IF n = 0 THEN 0 ELSE CostOf(entries, n - 1) + entries[n].para.content_len + 200

\* C27: in both modes, two or more items included against one budget cost
\* no more than the budget together; a budget is exceeded only by a single
\* item, included because nothing was included before it
C27_BudgetRespected ==
    (ContextReturned /\ ctx_call.paragraphs # << >>) =>
        \A role \in RoleNames :
            With(ChargedTo(role), LAMBDA charged :
                Len(charged) >= 2 =>
                    CostOf(charged, Len(charged)) <= BudgetOf(role))

\* a role-grouped call in which one role's budget holds two items and has
\* no room for a third, and another role's budget is exceeded by a single
\* item
C27_Witness ==
    /\ ContextReturned /\ ctx_call.paragraphs # << >>
    /\ ctx_call.group_by_role
    /\ \E role \in RoleNames :
          /\ Len(ChargedTo(role)) >= 2
          /\ CostOf(ChargedTo(role), Len(ChargedTo(role))) + 300 > BudgetOf(role)
    /\ \E role \in RoleNames :
          /\ Len(ChargedTo(role)) = 1
          /\ CostOf(ChargedTo(role), 1) > BudgetOf(role)

(***************************************************************************)
(* The three identifier resolvers  (graph.py 24-80, verify.py 462-481,     *)
(* paragraphs.py 68-238), run on one identifier over one content of the    *)
(* ISAParagraph table.                                                     *)
(***************************************************************************)
\* the rows the table can hold; a paragraph_ref names one row
ParagraphRows ==
    {[id |-> "ip_0", paragraph_ref |-> "315.12", isa_number |-> "315",
      para_num |-> "12", sub_paragraph |-> "", application_ref |-> ""],
     [id |-> "ip_1", paragraph_ref |-> "315.12(a)", isa_number |-> "315",
      para_num |-> "12", sub_paragraph |-> "a", application_ref |-> ""],
     [id |-> "ip_2", paragraph_ref |-> "315.A2", isa_number |-> "315",
      para_num |-> "", sub_paragraph |-> "", application_ref |-> "A2"],
     [id |-> "ip_3", paragraph_ref |-> "240.5", isa_number |-> "240",
      para_num |-> "5", sub_paragraph |-> "", application_ref |-> ""]}

ParagraphTables == SUBSET ParagraphRows

\* the identifier arguments tried: internal ids and reference strings, with
\* and without the ISA prefix
Identifiers ==
    {"ip_0", "ip_3", "ip_9", "gs_1", "315.12", "ISA 315.12", "isa315.12(a)",
     "315.12(a)", "315.A2", "ISA 315.A2", "240.5", "ISA 240.5", "999.1"}

\* paragraphs._get_by_id(paragraph_id): [id |-> the id of the paragraph
\* returned], or NoCall for found = False
GetById(rows, paragraph_id) ==
    FirstId({r \in rows : r.id = paragraph_id})

\* paragraphs._get_by_reference(reference)
GetByReference(rows, reference) ==
    With(StripIsaPrefix(Strip(reference)), LAMBDA ref :
        LET exact == {r \in rows : r.paragraph_ref = ref}
            match == MatchParagraphRef(ref)
            parsed == IF match = NoCall THEN {}
                      ELSE {r \in rows :
                               /\ r.isa_number = match.isa_number
                               /\ r.para_num = match.para_num
                               /\ match.sub_paragraph # "" => r.sub_paragraph = match.sub_paragraph
                               /\ match.application_ref # ""
                                     => r.application_ref = match.application_ref}
            app_match == MatchApplicationRef(ref)
            applied == IF app_match = NoCall THEN {}
                       ELSE {r \in rows :
                                /\ r.isa_number = app_match.isa_number
                                /\ r.application_ref = app_match.application_ref}
        IN IF exact # {} THEN FirstId(exact)
           ELSE IF parsed # {} THEN FirstId(parsed)
           ELSE FirstId(applied))

\* paragraphs.get_paragraph(identifier)
GetParagraph(rows, identifier) ==
    IF StartsWith(identifier, "ip_") \/ StartsWith(identifier, "gs_")
    THEN GetById(rows, identifier)
    ELSE GetByReference(rows, identifier)

\* the three resolvers are called with one identifier while the table holds
\* the rows given
CallResolvers ==
    /\ resolve_call = NoCall
    /\ \E rows \in ParagraphTables, identifier \in Identifiers :
          /\ resolve_call' = [identifier |-> identifier, rows |-> rows]
          /\ resolve_result' =
                [graph |-> GraphResolveParagraphId(rows, identifier),
                 verify |-> VerifyResolveParagraphId(rows, identifier),
                 paragraphs |-> GetParagraph(rows, identifier)]
    /\ UNCHANGED <<hopVars, rrfVars, searchVars, contextVars, verifyVars, guideVars,
                   expandVars, rerankVars, dbVars>>

ResolveNext == CallResolvers

SpecResolve == Init /\ [][ResolveNext]_vars

Resolved == resolve_result # NoCall

\* C29: the three resolvers agree on every identifier and store content:
\* all of them resolve it to the same paragraph id, or all of them report
\* not found
C29_ResolversAgree ==
    Resolved =>
        /\ resolve_result.graph = resolve_result.verify
        /\ resolve_result.verify = resolve_result.paragraphs

(***************************************************************************)
(* C30: the mode multi_tier_search reports.                                *)
(***************************************************************************)
\* the tiers whose search ran and returned a response
TiersSearched ==
    {t \in search_call.tiers : tier_resp[t] # NoCall /\ tier_resp[t] # Raised}

\* C30: search_type_used of multi_tier_search is the mode its tier searches
\* executed; with the vector capability unavailable and mode hybrid or
\* vector, where every tier fell back to keyword with a warning, it is
\* "keyword"
C30_ReportsExecutedMode ==
    (MultiTierCall /\ SearchReturned) =>
        /\ \A t \in TiersSearched :
              search_resp.search_type_used = tier_resp[t].search_type_used
        /\ (~IsVectorSearchAvailable /\ search_call.search_type \in {"hybrid", "vector"}) =>
              search_resp.search_type_used = "keyword"

=============================================================================
